---- MODULE Spec2Model ----
(***************************************************************************)
(* A model of scripts/parse_trace.py: the time-profile pipeline            *)
(*   TimeProfileParser (identifier index, reference resolution, row to     *)
(*   Sample reconstruction) and ProfileAnalyzer (inclusive, leaf-only,     *)
(*   scoped and keyword aggregation, collapsed stacks).                    *)
(*                                                                         *)
(* Representation.                                                         *)
(*  - A Python str is a sequence of one-character strings: "0x1" is        *)
(*    <<"0","x","1">>, "" is <<>>.  Python None (and an absent XML         *)
(*    attribute) is the one-element sequence None, which is no str.        *)
(*  - A float weight is an integer: a number of thousandths of a           *)
(*    millisecond (12.9 ms is 12900) for the small floats, and a code of   *)
(*    its own range for the floats near the multiples of 2**53, for inf    *)
(*    and for nan (section "Floats").  Float addition is exact on the      *)
(*    multiples of 1/8 ms, rounded as IEEE 754 rounds from 2**53 on, and   *)
(*    has no value in the model anywhere else.                             *)
(*  - A Frame / Sample is a record with the dataclass's fields; a result   *)
(*    tuple is a TLA+ tuple; a dict is its sequence of entries in          *)
(*    insertion order.                                                     *)
(***************************************************************************)
EXTENDS Integers, Sequences, FiniteSets, TLC

VARIABLES
    doc,        \* the parsed XML tree (ET.parse), nodes in document order
    id_cache,   \* TimeProfileParser.id_cache: sequence of <<id, node index>>
    pc,         \* position of TimeProfileParser.parse
    row_i,      \* number of rows of root.iter("row") already handled
    samples,    \* TimeProfileParser.samples / ProfileAnalyzer.samples
    ret,        \* the ProfileAnalyzer call that has just returned: operation,
                \* arguments, value (NoCall between calls)
    parses,     \* number of calls of TimeProfileParser.parse that have returned
    export_dir, \* generate_report: the state of each category's file in export_dir
    report,     \* generate_report: the sections appended to lines so far
    rpc         \* position of generate_report

vars == <<doc, id_cache, pc, row_i, samples, ret, parses, export_dir, report, rpc>>

(***************************************************************************)
(* Bounds                                                                  *)
(***************************************************************************)
\* total number of frames in a generated trace (over all its samples)
MaxFrames == 3
\* top_n ranges over 0..MaxTopN
MaxTopN == 2

(***************************************************************************)
(* Strings                                                                 *)
(***************************************************************************)
None == <<"None">>

\* Python truthiness of an Optional[str]: None and "" are false
Truthy(s) == s # None /\ s # <<>>

Min(a, b) == IF a <= b THEN a ELSE b
Max(a, b) == IF a >= b THEN a ELSE b

\* s[i:] for 1-based i
Drop(s, i) == SubSeq(s, i, Len(s))

\* str.startswith
startswith(s, p) == Len(p) <= Len(s) /\ SubSeq(s, 1, Len(p)) = p

\* p in s (substring test)
contains(s, p) == \E i \in 1..(Len(s) - Len(p) + 1) : SubSeq(s, i, i + Len(p) - 1) = p

\* str.replace(old, new) for a non-empty old: leftmost, non-overlapping
RECURSIVE replace(_, _, _)
replace(s, old, new) ==
    IF s = <<>> THEN <<>>
    ELSE IF startswith(s, old) THEN new \o replace(Drop(s, Len(old) + 1), old, new)
    ELSE <<Head(s)>> \o replace(Tail(s), old, new)

LowerChar(c) ==
    CASE c = "A" -> "a" [] c = "B" -> "b" [] c = "C" -> "c" [] c = "D" -> "d"
      [] c = "E" -> "e" [] c = "F" -> "f" [] c = "G" -> "g" [] c = "H" -> "h"
      [] c = "I" -> "i" [] c = "J" -> "j" [] c = "K" -> "k" [] c = "L" -> "l"
      [] c = "M" -> "m" [] c = "N" -> "n" [] c = "O" -> "o" [] c = "P" -> "p"
      [] c = "Q" -> "q" [] c = "R" -> "r" [] c = "S" -> "s" [] c = "T" -> "t"
      [] c = "U" -> "u" [] c = "V" -> "v" [] c = "W" -> "w" [] c = "X" -> "x"
      [] c = "Y" -> "y" [] c = "Z" -> "z" [] OTHER -> c

\* str.lower
lower(s) == [i \in 1..Len(s) |-> LowerChar(s[i])]

\* sep.join(parts)
RECURSIVE join(_, _)
join(sep, parts) ==
    IF parts = <<>> THEN <<>>
    ELSE IF Len(parts) = 1 THEN parts[1]
    ELSE parts[1] \o sep \o join(sep, Tail(parts))

DigitChar(d) ==
    CASE d = 0 -> "0" [] d = 1 -> "1" [] d = 2 -> "2" [] d = 3 -> "3" [] d = 4 -> "4"
      [] d = 5 -> "5" [] d = 6 -> "6" [] d = 7 -> "7" [] d = 8 -> "8" [] d = 9 -> "9"

RECURSIVE NatStr(_)
NatStr(n) == IF n < 10 THEN <<DigitChar(n)>> ELSE NatStr(n \div 10) \o <<DigitChar(n % 10)>>


(***************************************************************************)
(* Floats.  A float is an integer of the model:                            *)
(*  - a finite float below FiniteLimit thousandths of a ms in magnitude is *)
(*    the number of its thousandths (12.9 ms is 12900);                    *)
(*  - the float k * 2^53 + off ms, for k in 1..MaxHigh and off a whole     *)
(*    number of ms with -BigStep/2 < off < BigStep/2, is                   *)
(*    FiniteLimit + k * BigStep + off (the floats of that size are whole   *)
(*    numbers of ms, 1, 2, 4, .. ms apart);                                *)
(*  - inf, -inf and nan are Infinity, -Infinity and NaN.                   *)
(* For floats other than nan the order of the integers is the order of the *)
(* floats.  An operation whose operands or result are floats that have no  *)
(* integer here, or whose float result is not exactly the decimal result,  *)
(* is NotModelled: it has no value, and evaluating it is an error.         *)
(***************************************************************************)
FiniteLimit == 1200000000
BigStep == 1000000
MaxHigh == 15
Two53 == FiniteLimit + BigStep
Infinity == 2147483646
NaN == Infinity + 1

\* the value of an operation outside the floats and strings of the model: there is none
NotModelled(x) == CHOOSE v \in {} : v = x

OverflowError == <<"OverflowError">>
ValueError == <<"ValueError">>

IsFinite(a) == -FiniteLimit < a /\ a < FiniteLimit
IsBig(a) == FiniteLimit <= a /\ a < Infinity

\* k of the float k * 2^53 + off ms (0 for a finite float of the model)
HighOf(a) == IF IsBig(a) THEN (a - FiniteLimit + (BigStep \div 2)) \div BigStep ELSE 0

\* what the float has beside HighOf(a) * 2^53 ms, in thousandths of a ms
LowOf(a) == IF IsBig(a) THEN 1000 * (a - FiniteLimit - HighOf(a) * BigStep) ELSE a

\* the float nearest to k * 2^53 ms + e thousandths (round half to even) for k >= 1: the
\* floats of [2^(52+j), 2^(53+j)) are 2^j ms apart, and such a float has an even mantissa
\* exactly when it is an even multiple of 2^j ms away from k * 2^53 ms
fround(k, e) ==
    LET above == IF k >= 8 THEN 16 ELSE IF k >= 4 THEN 8 ELSE IF k >= 2 THEN 4 ELSE 2
        \* below a power of two times 2^53 the floats are half as far apart
        ulp == 1000 * (IF e < 0 /\ k \in {1, 2, 4, 8} THEN above \div 2 ELSE above)
        size == IF e < 0 THEN -e ELSE e
        m == size \div ulp
        rest == size % ulp
        up == 2 * rest > ulp \/ (2 * rest = ulp /\ m % 2 = 1)
        off == (IF up THEN m + 1 ELSE m) * (ulp \div 1000)
    IN IF k <= MaxHigh /\ 2 * off < BigStep
       THEN FiniteLimit + k * BigStep + (IF e < 0 THEN -off ELSE off)
       ELSE NotModelled(<<k, e>>)

\* a + b for floats a and b.  Two finite floats of the model are added exactly when both are
\* multiples of 1/8 ms, as their sum then is in binary floating point
fadd(a, b) ==
    IF a = NaN \/ b = NaN THEN NaN
    ELSE IF a \in {Infinity, -Infinity} THEN (IF b = -a THEN NaN ELSE a)
    ELSE IF b \in {Infinity, -Infinity} THEN b
    ELSE IF a = 0 THEN b
    ELSE IF b = 0 THEN a
    ELSE IF IsBig(a) \/ IsBig(b)
         THEN IF IsFinite(LowOf(a) + LowOf(b))
              THEN fround(HighOf(a) + HighOf(b), LowOf(a) + LowOf(b))
              ELSE NotModelled(<<a, b>>)
    ELSE IF /\ IsFinite(a) /\ IsFinite(b) /\ a % 125 = 0 /\ b % 125 = 0
            /\ (a > 0 /\ b > 0) => b < FiniteLimit - a
            /\ (a < 0 /\ b < 0) => b > -FiniteLimit - a
         THEN a + b
    ELSE NotModelled(<<a, b>>)

\* the exception int(w) raises for a float w, None when it returns
int_raises(w) ==
    IF w \in {Infinity, -Infinity} THEN OverflowError
    ELSE IF w = NaN THEN ValueError
    ELSE None

\* mutant: rounds down (math.floor), which differs from int() below zero
int_floor(w) == w \div 1000

\* int(w) for a float w: truncation toward zero (w in thousandths).  An int below
\* FiniteLimit / 1000 in magnitude is itself; the int k * 2^53 + off of a float of that
\* size has the integer of the float
int(w) ==
    IF IsBig(w) THEN w
    ELSE IF ~IsFinite(w) THEN NotModelled(w)
    ELSE IF w >= 0 THEN w \div 1000 ELSE -((-w) \div 1000)

\* str(i) for an int i, as an f-string formats it.  2^53 is 90071992 * 10^8 + 54740992, so
\* the digits of k * 2^53 + off are those of the two halves
IntStr(i) ==
    IF IsBig(i)
    THEN LET k == HighOf(i)
             low == k * 54740992 + (LowOf(i) \div 1000)
             tail == NatStr(100000000 + (low % 100000000))
         IN NatStr(k * 90071992 + (low \div 100000000)) \o SubSeq(tail, 2, 9)
    ELSE IF i < 0 THEN <<"-">> \o NatStr(-i) ELSE NatStr(i)

(***************************************************************************)
(* Data classes                                                            *)
(***************************************************************************)
Frame(name, addr, binary) == [name |-> name, addr |-> addr, binary |-> binary]

Sample(time, thread, process, weight_ms, backtrace) ==
    [time |-> time, thread |-> thread, process |-> process,
     weight_ms |-> weight_ms, backtrace |-> backtrace]

(***************************************************************************)
(* xml.etree.ElementTree: a document is the sequence of its elements in    *)
(* document order; an element records its tag, the index of its parent (0 *)
(* for the root) and the attributes the parser reads (None when absent)    *)
(***************************************************************************)
Element(tag, parent, id, ref, fmt, name, addr) ==
    [tag |-> tag, parent |-> parent, id |-> id, ref |-> ref, fmt |-> fmt,
     name |-> name, addr |-> addr]

\* elem.get(key, default)
get(elem, key, default) == IF elem[key] = None THEN default ELSE elem[key]

\* element k lies strictly below element a
RECURSIVE IsBelow(_, _, _)
IsBelow(d, k, a) ==
    IF d[k].parent = 0 THEN FALSE
    ELSE IF d[k].parent = a THEN TRUE
    ELSE IsBelow(d, d[k].parent, a)

\* the indices in the set, ascending (document order)
RECURSIVE InOrder(_)
InOrder(S) ==
    IF S = {} THEN <<>>
    ELSE LET k == CHOOSE k \in S : \A m \in S : k <= m IN <<k>> \o InOrder(S \ {k})

\* list(elem.iter(tag)): the element itself and all elements below it that have the tag
iter(d, a, tag) ==
    InOrder({k \in 1..Len(d) : (k = a \/ IsBelow(d, k, a)) /\ d[k].tag = tag})

\* list(root.iter()): every element
iter_all(d) == [k \in 1..Len(d) |-> k]

\* elem.find(".//tag"): the first element below elem with the tag, 0 for None
find(d, a, tag) ==
    LET below == {k \in 1..Len(d) : IsBelow(d, k, a) /\ d[k].tag = tag}
    IN IF below = {} THEN 0 ELSE CHOOSE k \in below : \A m \in below : k <= m

\* list(elem): the children of the element
children(d, a) == InOrder({k \in 1..Len(d) : d[k].parent = a})

(***************************************************************************)
(* TimeProfileParser                                                       *)
(***************************************************************************)
EmptyCache == [x \in {} |-> 0]

\* the loop of _build_id_cache over root.iter()[k..]; a later element replaces an earlier one
RECURSIVE build_id_cache_from(_, _, _)
build_id_cache_from(d, cache, k) ==
    IF k > Len(d) THEN cache
    ELSE LET elem_id == d[iter_all(d)[k]].id
         IN build_id_cache_from(d,
                IF Truthy(elem_id) THEN (elem_id :> iter_all(d)[k]) @@ cache ELSE cache,
                k + 1)

\* mutant: an identifier already indexed is not replaced
build_id_cache_keeps_first(d, cache) ==
    LET ids == {d[k].id : k \in {m \in 1..Len(d) : Truthy(d[m].id)}}
    IN cache @@ [id \in ids |-> CHOOSE k \in 1..Len(d) :
                                    /\ d[k].id = id
                                    /\ \A m \in 1..Len(d) : d[m].id = id => k <= m]

\* mutant: the index is filled as the rows are met: only the elements up to the first row
\* are indexed before the loop over the rows
build_id_cache_up_to_first_row(d, cache) ==
    LET rows == iter(d, 1, "row")
        upto == IF rows = <<>> THEN Len(d) ELSE rows[1]
    IN build_id_cache_from(SubSeq(d, 1, upto), cache, 1)

build_id_cache(d, cache) == build_id_cache_from(d, cache, 1)

\* mutant: the reference of the indexed element is followed too
resolve_ref_two_hops(d, cache, k) ==
    LET ref == d[k].ref
        once == IF Truthy(ref) /\ ref \in DOMAIN cache THEN cache[ref] ELSE k
        ref2 == d[once].ref
    IN IF Truthy(ref2) /\ ref2 \in DOMAIN cache THEN cache[ref2] ELSE once

\* mutant: the reference is never followed
resolve_ref_not_followed(d, cache, k) == k

\* _resolve_ref(elem): the index of the element returned
resolve_ref(d, cache, k) ==
    LET ref == d[k].ref
    IN IF Truthy(ref) /\ ref \in DOMAIN cache THEN cache[ref] ELSE k

\* the characters str.strip() removes, among the characters of the model's strings
Whitespace == {" ", "\t", "\n", "\r", "\f"}

\* str.strip().  The strings of the model are made of the characters below and of Whitespace;
\* strip() and float() have rules of their own for others (\x0b, \x1c to \x1f, \x85, \xa0
\* and the spaces and digits beyond Latin-1), and a string that holds one is not modelled
RECURSIVE strip(_)
strip(s) ==
    LET visible == {"!", "\"", "#", "$", "%", "&", "'", "(", ")", "*", "+", ",", "-", ".", "/", "0",
                    "1", "2", "3", "4", "5", "6", "7", "8", "9", ":", ";", "<", "=", ">", "?", "@",
                    "A", "B", "C", "D", "E", "F", "G", "H", "I", "J", "K", "L", "M", "N", "O", "P",
                    "Q", "R", "S", "T", "U", "V", "W", "X", "Y", "Z", "[", "\\", "]", "^", "_", "a",
                    "b", "c", "d", "e", "f", "g", "h", "i", "j", "k", "l", "m", "n", "o", "p", "q",
                    "r", "s", "t", "u", "v", "w", "x", "y", "z", "{", "|", "}", "~"}
    IN IF \E i \in 1..Len(s) : s[i] \notin visible \cup Whitespace THEN NotModelled(s)
       ELSE IF s = <<>> THEN s
       ELSE IF Head(s) \in Whitespace THEN strip(Tail(s))
       ELSE IF s[Len(s)] \in Whitespace THEN strip(SubSeq(s, 1, Len(s) - 1))
       ELSE s

Digits == {"0", "1", "2", "3", "4", "5", "6", "7", "8", "9"}

AllDigits(s) == \A i \in 1..Len(s) : s[i] \in Digits

DigitOf(c) == CHOOSE v \in 0..9 : DigitChar(v) = c

RECURSIVE NatOf(_)
NatOf(s) == IF s = <<>> THEN 0 ELSE 10 * NatOf(SubSeq(s, 1, Len(s) - 1)) + DigitOf(s[Len(s)])

\* the value of the fraction digits in thousandths; digits after the third are not modelled
\* unless they are zeros
FractionOf(s) ==
    IF \A i \in 4..Len(s) : s[i] = "0"
    THEN NatOf(SubSeq(s \o <<"0", "0", "0">>, 1, 3))
    ELSE NotModelled(s)

\* float(s0): [ok, value]; ok is FALSE where float raises ValueError.  Whitespace around the
\* number is skipped; "inf", "infinity" and "nan" are read in any case and with a sign.  Exponents and "_"
\* between digits are not modelled, nor are numbers of FiniteLimit thousandths and more
float(s0) ==
    LET s == strip(s0)
        signed == s # <<>> /\ s[1] \in {"+", "-"}
        body == IF signed THEN Tail(s) ELSE s
        negative == signed /\ s[1] = "-"
        dots == {i \in 1..Len(body) : body[i] = "."}
        point == IF dots = {} THEN Len(body) + 1 ELSE CHOOSE i \in dots : \A k \in dots : i <= k
        whole == SubSeq(body, 1, point - 1)
        fraction == SubSeq(body, point + 1, Len(body))
        ok == /\ AllDigits(whole)
              /\ AllDigits(fraction)
              /\ Len(whole) + Len(fraction) >= 1
        \* made of the characters of a number with an exponent or "_", which float may read
        other_syntax ==
            /\ \E i \in 1..Len(body) : body[i] \in {"e", "E", "_"}
            /\ \A i \in 1..Len(body) : body[i] \in Digits \cup {"e", "E", "_", ".", "+", "-"}
        magnitude == IF Len(whole) <= 9 /\ NatOf(whole) < FiniteLimit \div 1000
                     THEN 1000 * NatOf(whole) + FractionOf(fraction)
                     ELSE NotModelled(s)
    IN IF lower(body) \in {<<"i", "n", "f">>, <<"i", "n", "f", "i", "n", "i", "t", "y">>}
       THEN [ok |-> TRUE, value |-> IF negative THEN -Infinity ELSE Infinity]
       ELSE IF lower(body) = <<"n", "a", "n">> THEN [ok |-> TRUE, value |-> NaN]
       ELSE IF ok THEN [ok |-> TRUE, value |-> IF negative THEN -magnitude ELSE magnitude]
       ELSE IF other_syntax THEN NotModelled(s)
       ELSE [ok |-> FALSE, value |-> 0]

S_ms == <<"m", "s">>
S_1_ms == <<"1", " ", "m", "s">>

\* mutant: elem.get("fmt") without the default ""
field_str_no_default(d, cache, row, tag) ==
    LET elem == find(d, row, tag)
    IN IF elem # 0 THEN get(d[resolve_ref(d, cache, elem)], "fmt", None) ELSE <<>>

\* the fmt of a located element (time, thread, process): "" when the element is missing
field_str(d, cache, row, tag) ==
    LET elem == find(d, row, tag)
    IN IF elem # 0 THEN get(d[resolve_ref(d, cache, elem)], "fmt", <<>>) ELSE <<>>

\* mutant: the thousands separators are left in the string
weight_of_row_keeps_commas(d, cache, row) ==
    LET weight_elem == find(d, row, "weight")
    IN IF weight_elem # 0
       THEN LET fmt == get(d[resolve_ref(d, cache, weight_elem)], "fmt", S_1_ms)
                parsed == float(strip(replace(fmt, S_ms, <<>>)))
            IN IF parsed.ok THEN parsed.value ELSE 1000
       ELSE 1000

\* the weight of a row
weight_of_row(d, cache, row) ==
    LET weight_elem == find(d, row, "weight")
    IN IF weight_elem # 0
       THEN LET fmt == get(d[resolve_ref(d, cache, weight_elem)], "fmt", S_1_ms)
                parsed == float(strip(replace(replace(fmt, S_ms, <<>>), <<",">>, <<>>)))
            IN IF parsed.ok THEN parsed.value ELSE 1000
       ELSE 1000

\* mutant: the ref of the binary child is not looked up
binary_of_frame_own_name(d, cache, frame_elem) ==
    LET binaries == {c \in 1..Len(d) : d[c].parent = frame_elem /\ d[c].tag = "binary"}
    IN IF binaries = {} THEN None
       ELSE get(d[CHOOSE c \in binaries : \A m \in binaries : c <= m], "name", <<>>)

\* the binary of a resolved frame element: the name of its first binary child
binary_of_frame(d, cache, frame_elem) ==
    LET binaries == {c \in 1..Len(d) : d[c].parent = frame_elem /\ d[c].tag = "binary"}
    IN IF binaries = {} THEN None
       ELSE LET child == CHOOSE c \in binaries : \A m \in binaries : c <= m
                ref == d[child].ref
            IN IF Truthy(ref) /\ ref \in DOMAIN cache
               THEN get(d[cache[ref]], "name", <<>>)
               ELSE get(d[child], "name", <<>>)

\* mutant: each frame is put in front of the frames before it (root first)
RECURSIVE backtrace_of_frames_reversed(_, _, _, _, _)
backtrace_of_frames_reversed(d, cache, frames, i, backtrace) ==
    IF i > Len(frames) THEN backtrace
    ELSE LET frame_elem == resolve_ref(d, cache, frames[i])
             name == get(d[frame_elem], "name", <<>>)
             addr == get(d[frame_elem], "addr", <<>>)
             binary == binary_of_frame(d, cache, frame_elem)
         IN backtrace_of_frames_reversed(d, cache, frames, i + 1,
                IF name # <<>> THEN <<Frame(name, addr, binary)>> \o backtrace ELSE backtrace)

\* the loop over bt_elem.iter("frame"): frames is list(bt_elem.iter("frame"))
RECURSIVE backtrace_of_frames(_, _, _, _, _)
backtrace_of_frames(d, cache, frames, i, backtrace) ==
    IF i > Len(frames) THEN backtrace
    ELSE LET frame_elem == resolve_ref(d, cache, frames[i])
             name == get(d[frame_elem], "name", <<>>)
             addr == get(d[frame_elem], "addr", <<>>)
             binary == binary_of_frame(d, cache, frame_elem)
         IN backtrace_of_frames(d, cache, frames, i + 1,
                IF name # <<>> THEN Append(backtrace, Frame(name, addr, binary)) ELSE backtrace)

backtrace_of_row(d, cache, row) ==
    LET bt_elem == find(d, row, "backtrace")
    IN IF bt_elem # 0
       THEN backtrace_of_frames(d, cache, iter(d, resolve_ref(d, cache, bt_elem), "frame"), 1, <<>>)
       ELSE <<>>

\* mutant: a row with an empty backtrace yields a Sample too
parse_row_keeps_empty(d, cache, row) ==
    << Sample(field_str(d, cache, row, "sample-time"),
              field_str(d, cache, row, "thread"),
              field_str(d, cache, row, "process"),
              weight_of_row(d, cache, row),
              backtrace_of_row(d, cache, row)) >>

\* _parse_row(row): an Optional[Sample], <<>> for None and <<sample>> for a Sample
parse_row(d, cache, row) ==
    LET backtrace == backtrace_of_row(d, cache, row)
    IN IF backtrace = <<>> THEN <<>>
       ELSE << Sample(field_str(d, cache, row, "sample-time"),
                      field_str(d, cache, row, "thread"),
                      field_str(d, cache, row, "process"),
                      weight_of_row(d, cache, row),
                      backtrace) >>

\* parse(), up to the loop: ET.parse has read the document, the index is built
ParseBegin ==
    /\ pc = "start"
    /\ id_cache' = build_id_cache(doc, id_cache)
    /\ row_i' = 0
    /\ pc' = "rows"
    /\ UNCHANGED <<doc, samples, ret>>
    /\ UNCHANGED <<parses, export_dir, report, rpc>>

\* one turn of the loop of parse() over root.iter("row")
ParseRow ==
    /\ pc = "rows"
    /\ row_i < Len(iter(doc, 1, "row"))
    /\ LET sample == parse_row(doc, id_cache, iter(doc, 1, "row")[row_i + 1])
       IN samples' = IF sample # <<>> THEN Append(samples, sample[1]) ELSE samples
    /\ row_i' = row_i + 1
    /\ UNCHANGED <<doc, id_cache, pc, ret>>
    /\ UNCHANGED <<parses, export_dir, report, rpc>>

\* parse() returns self.samples
ParseReturn ==
    /\ pc = "rows"
    /\ row_i = Len(iter(doc, 1, "row"))
    /\ pc' = "done"
    /\ UNCHANGED <<doc, id_cache, row_i, samples, ret>>
    /\ parses' = parses + 1
    /\ UNCHANGED <<export_dir, report, rpc>>

\* _resolve_ref(elem) on an element of the document, once the index is built
ResolveRef ==
    /\ pc = "done"
    /\ doc # <<>>
    /\ ret.op = "none"
    /\ \E elem \in 1..Len(doc) :
          ret' = [op |-> "_resolve_ref", elem |-> elem, value |-> resolve_ref(doc, id_cache, elem)]
    /\ UNCHANGED <<doc, id_cache, pc, row_i, samples>>
    /\ UNCHANGED <<parses, export_dir, report, rpc>>

(***************************************************************************)
(* ProfileAnalyzer                                                         *)
(***************************************************************************)
system_prefixes ==
    << <<"d","y","l","d">>,
       <<"l","i","b","s","y","s","t","e","m">>,
       <<"l","i","b","o","b","j","c">>,
       <<"l","i","b","d","i","s","p","a","t","c","h">>,
       <<"C","o","r","e","F","o","u","n","d","a","t","i","o","n">>,
       <<"F","o","u","n","d","a","t","i","o","n">>,
       <<"U","I","K","i","t">>,
       <<"Q","u","a","r","t","z","C","o","r","e">>,
       <<"_","C","F">>,
       <<"_","N","S">>,
       <<"o","b","j","c","_">> >>

\* mutant: only the name of the frame is tested, not its binary
is_system_frame_name_only(frame) ==
    \E k \in 1..Len(system_prefixes) : startswith(frame.name, system_prefixes[k])

\* _is_system_frame(frame)
is_system_frame(frame) ==
    \E k \in 1..Len(system_prefixes) :
        \/ startswith(frame.name, system_prefixes[k])
        \/ (Truthy(frame.binary) /\ startswith(frame.binary, system_prefixes[k]))

RawAddr == <<"0", "x">>

\* index of key in a dict (sequence of entries <<name, count, weight, binary>>), 0 if absent
RECURSIVE IndexOf(_, _, _)
IndexOf(d, name, i) ==
    IF i > Len(d) THEN 0 ELSE IF d[i][1] = name THEN i ELSE IndexOf(d, name, i + 1)

\* mutant: frame_binary[name] = binary without the test of binary
accumulate_forgets_binary(d, name, weight, binary) ==
    LET i == IndexOf(d, name, 1) IN
    IF i = 0
    THEN Append(d, <<name, 1, weight, IF Truthy(binary) THEN binary ELSE None>>)
    ELSE [d EXCEPT ![i] = <<name, d[i][2] + 1, fadd(d[i][3], weight),
                            IF Truthy(binary) THEN binary ELSE None>>]

\* mutant: the binary first seen for a name is kept
accumulate_first_binary(d, name, weight, binary) ==
    LET i == IndexOf(d, name, 1) IN
    IF i = 0
    THEN Append(d, <<name, 1, weight, IF Truthy(binary) THEN binary ELSE None>>)
    ELSE [d EXCEPT ![i] = <<name, d[i][2] + 1, fadd(d[i][3], weight),
                            IF Truthy(d[i][4]) THEN d[i][4] ELSE binary>>]

\* frame_counts[name] += 1; frame_weights[name] += weight;
\* if binary: frame_binary[name] = binary
\* (the defaultdicts insert a new key at the end)
accumulate(d, name, weight, binary) ==
    LET i == IndexOf(d, name, 1) IN
    IF i = 0
    THEN Append(d, <<name, 1, weight, IF Truthy(binary) THEN binary ELSE None>>)
    ELSE [d EXCEPT ![i] = <<name, d[i][2] + 1, fadd(d[i][3], weight),
                            IF Truthy(binary) THEN binary ELSE d[i][4]>>]

\* x < y for the float keys of sorted(): False when either is nan
key_lt(x, y) == x # NaN /\ y # NaN /\ x < y

\* list.reverse
reversed(s) == [i \in 1..Len(s) |-> s[Len(s) + 1 - i]]

\* count_run of list.sort on a[1..]: the run goes on after its first n >= 2 entries while
\* the next key is less than the one before it (descending) or not less (otherwise)
RECURSIVE run_length(_, _, _)
run_length(a, n, descending) ==
    IF n >= Len(a) THEN n
    ELSE IF key_lt(a[n + 1][3], a[n][3]) = descending THEN run_length(a, n + 1, descending)
    ELSE n

\* the binary search of binarysort, l and r counted from 0: where pivot goes in a[l..r-1]
RECURSIVE binary_search(_, _, _, _)
binary_search(a, pivot, l, r) ==
    LET p == l + ((r - l) \div 2)
        less == key_lt(pivot[3], a[p + 1][3])
        l2 == IF less THEN l ELSE p + 1
        r2 == IF less THEN p ELSE r
    IN IF l2 < r2 THEN binary_search(a, pivot, l2, r2) ELSE l2

\* binarysort of list.sort: a[1..start] is sorted, the entries after it are inserted one by one
RECURSIVE binarysort(_, _)
binarysort(a, start) ==
    IF start >= Len(a) THEN a
    ELSE LET pivot == a[start + 1]
             l == binary_search(a, pivot, 0, start)
         IN binarysort(SubSeq(a, 1, l) \o <<pivot>> \o SubSeq(a, l + 1, start)
                           \o SubSeq(a, start + 2, Len(a)),
                       start + 1)

\* sorted(items, key=weight, reverse=True) as list.sort does it for fewer than 64 items: the
\* list is reversed, its first run is found (and reversed when descending), the other items
\* are inserted by binary search, and the result is reversed.  Only < of the keys is used
sorted_by_weight_desc(d) ==
    LET a == reversed(d)
        descending == Len(a) >= 2 /\ key_lt(a[2][3], a[1][3])
        n == IF Len(a) < 2 THEN Len(a) ELSE run_length(a, 2, descending)
        run == IF descending THEN reversed(SubSeq(a, 1, n)) \o SubSeq(a, n + 1, Len(a)) ELSE a
    IN IF Len(d) < 64 THEN reversed(binarysort(run, n)) ELSE NotModelled(d)

\* seq[:n]
slice_to(s, n) ==
    IF n >= 0 THEN SubSeq(s, 1, Min(n, Len(s))) ELSE SubSeq(s, 1, Max(Len(s) + n, 0))

\* mutant: raw-address frames are not skipped
hot_skip_keeps_raw(frame, filter_binary, exclude_system) ==
    \/ (Truthy(filter_binary) /\ frame.binary # filter_binary)
    \/ (exclude_system /\ is_system_frame(frame))

\* the filter tests of get_hot_frames on one frame: TRUE when the frame is skipped
hot_skip(frame, filter_binary, exclude_system) ==
    \/ startswith(frame.name, RawAddr)
    \/ (Truthy(filter_binary) /\ frame.binary # filter_binary)
    \/ (exclude_system /\ is_system_frame(frame))

\* mutant: no per-sample seen-set, every occurrence of a name is counted
RECURSIVE hot_frames_of_sample_no_dedup(_, _, _, _, _)
hot_frames_of_sample_no_dedup(st, sample, j, filter_binary, exclude_system) ==
    IF j > Len(sample.backtrace) THEN st
    ELSE LET frame == sample.backtrace[j]
             nxt == IF hot_skip(frame, filter_binary, exclude_system) THEN st
                    ELSE [d |-> accumulate(st.d, frame.name, sample.weight_ms, frame.binary),
                          seen |-> st.seen \cup {frame.name}]
         IN hot_frames_of_sample_no_dedup(nxt, sample, j + 1, filter_binary, exclude_system)

\* mutant: the seen-set is consulted and filled before the filters are applied
RECURSIVE hot_frames_of_sample_dedup_first(_, _, _, _, _)
hot_frames_of_sample_dedup_first(st, sample, j, filter_binary, exclude_system) ==
    IF j > Len(sample.backtrace) THEN st
    ELSE LET frame == sample.backtrace[j]
             nxt == IF startswith(frame.name, RawAddr) \/ frame.name \in st.seen THEN st
                    ELSE IF hot_skip(frame, filter_binary, exclude_system)
                    THEN [d |-> st.d, seen |-> st.seen \cup {frame.name}]
                    ELSE [d |-> accumulate(st.d, frame.name, sample.weight_ms, frame.binary),
                          seen |-> st.seen \cup {frame.name}]
         IN hot_frames_of_sample_dedup_first(nxt, sample, j + 1, filter_binary, exclude_system)

\* the inner loop of get_hot_frames over sample.backtrace[j..]; st = [d, seen]
RECURSIVE hot_frames_of_sample(_, _, _, _, _)
hot_frames_of_sample(st, sample, j, filter_binary, exclude_system) ==
    IF j > Len(sample.backtrace) THEN st
    ELSE LET frame == sample.backtrace[j]
             nxt == IF hot_skip(frame, filter_binary, exclude_system) THEN st
                    ELSE IF frame.name \in st.seen THEN st
                    ELSE [d |-> accumulate(st.d, frame.name, sample.weight_ms, frame.binary),
                          seen |-> st.seen \cup {frame.name}]
         IN hot_frames_of_sample(nxt, sample, j + 1, filter_binary, exclude_system)

\* the outer loop of get_hot_frames over self.samples[i..]
RECURSIVE hot_frames_loop(_, _, _, _, _)
hot_frames_loop(d, ss, i, filter_binary, exclude_system) ==
    IF i > Len(ss) THEN d
    ELSE hot_frames_loop(
            hot_frames_of_sample([d |-> d, seen |-> {}], ss[i], 1,
                                 filter_binary, exclude_system).d,
            ss, i + 1, filter_binary, exclude_system)

get_hot_frames(ss, top_n, filter_binary, exclude_system) ==
    slice_to(sorted_by_weight_desc(hot_frames_loop(<<>>, ss, 1, filter_binary, exclude_system)),
             top_n)

\* mutant: a first named frame that fails the binary filter ends the search (break for continue)
RECURSIVE leaf_index_filter_breaks(_, _, _)
leaf_index_filter_breaks(backtrace, j, filter_binary) ==
    IF j > Len(backtrace) THEN 0
    ELSE IF startswith(backtrace[j].name, RawAddr)
         THEN leaf_index_filter_breaks(backtrace, j + 1, filter_binary)
    ELSE IF Truthy(filter_binary) /\ backtrace[j].binary # filter_binary THEN 0
    ELSE j

\* mutant: the first named frame is the leaf whatever its binary (no filter test)
RECURSIVE leaf_index_ignores_filter(_, _, _)
leaf_index_ignores_filter(backtrace, j, filter_binary) ==
    IF j > Len(backtrace) THEN 0
    ELSE IF startswith(backtrace[j].name, RawAddr)
         THEN leaf_index_ignores_filter(backtrace, j + 1, filter_binary)
    ELSE j

\* the leaf search of get_self_time_frames: index of leaf_frame in the backtrace, 0 for None
RECURSIVE leaf_index(_, _, _)
leaf_index(backtrace, j, filter_binary) ==
    IF j > Len(backtrace) THEN 0
    ELSE IF startswith(backtrace[j].name, RawAddr) THEN leaf_index(backtrace, j + 1, filter_binary)
    ELSE IF Truthy(filter_binary) /\ backtrace[j].binary # filter_binary
         THEN leaf_index(backtrace, j + 1, filter_binary)
    ELSE j

RECURSIVE self_time_loop(_, _, _, _)
self_time_loop(d, ss, i, filter_binary) ==
    IF i > Len(ss) THEN d
    ELSE LET j == leaf_index(ss[i].backtrace, 1, filter_binary)
             nxt == IF j = 0 THEN d
                    ELSE accumulate(d, ss[i].backtrace[j].name, ss[i].weight_ms,
                                    ss[i].backtrace[j].binary)
         IN self_time_loop(nxt, ss, i + 1, filter_binary)

get_self_time_frames(ss, top_n, filter_binary) ==
    slice_to(sorted_by_weight_desc(self_time_loop(<<>>, ss, 1, filter_binary)), top_n)

\* mutant: the substring test without lower()
app_skip_case_sensitive(frame, app_binary) ==
    \/ startswith(frame.name, RawAddr)
    \/ ~Truthy(frame.binary)
    \/ ~contains(frame.binary, app_binary)

\* the filter tests of get_app_frames on one frame: TRUE when the frame is skipped
app_skip(frame, app_binary) ==
    \/ startswith(frame.name, RawAddr)
    \/ ~Truthy(frame.binary)
    \/ ~contains(lower(frame.binary), lower(app_binary))

RECURSIVE app_frames_of_sample(_, _, _, _)
app_frames_of_sample(st, sample, j, app_binary) ==
    IF j > Len(sample.backtrace) THEN st
    ELSE LET frame == sample.backtrace[j]
             nxt == IF app_skip(frame, app_binary) THEN st
                    ELSE IF frame.name \in st.seen THEN st
                    ELSE [d |-> accumulate(st.d, frame.name, sample.weight_ms, None),
                          seen |-> st.seen \cup {frame.name}]
         IN app_frames_of_sample(nxt, sample, j + 1, app_binary)

RECURSIVE app_frames_loop(_, _, _, _)
app_frames_loop(d, ss, i, app_binary) ==
    IF i > Len(ss) THEN d
    ELSE app_frames_loop(app_frames_of_sample([d |-> d, seen |-> {}], ss[i], 1, app_binary).d,
                         ss, i + 1, app_binary)

\* (name, count, weight) of a 4-entry
triple(e) == <<e[1], e[2], e[3]>>

get_app_frames(ss, app_binary, top_n) ==
    LET s == slice_to(sorted_by_weight_desc(app_frames_loop(<<>>, ss, 1, app_binary)), top_n)
    IN [i \in 1..Len(s) |-> triple(s[i])]

swiftui_keywords ==
    << <<"S","w","i","f","t","U","I">>,
       <<"A","G",":",":">>,
       <<"V","i","e","w">>,
       <<"L","a","y","o","u","t">>,
       <<"D","i","s","p","l","a","y","L","i","s","t">>,
       <<"A","t","t","r","i","b","u","t","e">> >>

swiftui_match(e) ==
    \/ \E k \in 1..Len(swiftui_keywords) : contains(e[1], swiftui_keywords[k])
    \/ (Truthy(e[4]) /\ contains(e[4], swiftui_keywords[1]))

\* the loop of get_swiftui_frames over hot[i..]: append, then break once len(results) >= top_n
RECURSIVE swiftui_loop(_, _, _, _)
swiftui_loop(results, hot, i, top_n) ==
    IF i > Len(hot) THEN results
    ELSE IF swiftui_match(hot[i])
         THEN LET r == Append(results, triple(hot[i]))
              IN IF Len(r) >= top_n THEN r ELSE swiftui_loop(r, hot, i + 1, top_n)
    ELSE swiftui_loop(results, hot, i + 1, top_n)

get_swiftui_frames(ss, top_n) ==
    swiftui_loop(<<>>, get_hot_frames(ss, 100, None, FALSE), 1, top_n)

\* frame.name.replace(";", ":").replace(" ", "_")
clean_name(name) == replace(replace(name, <<";">>, <<":">>), <<" ">>, <<"_">>)

\* the inner loop of generate_collapsed_stacks: frames j, j-1, .., 1 (reversed backtrace)
RECURSIVE collapsed_stack(_, _, _, _)
collapsed_stack(stack, backtrace, j, filter_binary) ==
    IF j < 1 THEN stack
    ELSE LET frame == backtrace[j]
             skip == \/ startswith(frame.name, RawAddr)
                     \/ /\ Truthy(filter_binary)
                        /\ Truthy(frame.binary)
                        /\ ~contains(lower(frame.binary), lower(filter_binary))
         IN collapsed_stack(IF skip THEN stack ELSE Append(stack, clean_name(frame.name)),
                            backtrace, j - 1, filter_binary)

\* mutant: a sample whose stack is empty still gets a line
RECURSIVE collapsed_lines_keeps_empty(_, _, _, _)
collapsed_lines_keeps_empty(lines, ss, i, filter_binary) ==
    IF i > Len(ss) THEN lines
    ELSE LET stack == collapsed_stack(<<>>, ss[i].backtrace, Len(ss[i].backtrace), filter_binary)
         IN collapsed_lines_keeps_empty(
                Append(lines, join(<<";">>, stack) \o <<" ">> \o IntStr(int(ss[i].weight_ms))),
                ss, i + 1, filter_binary)

\* the list `lines` of generate_collapsed_stacks
RECURSIVE collapsed_lines(_, _, _, _)
collapsed_lines(lines, ss, i, filter_binary) ==
    IF i > Len(ss) THEN lines
    ELSE LET stack == collapsed_stack(<<>>, ss[i].backtrace, Len(ss[i].backtrace), filter_binary)
             nxt == IF stack # <<>>
                    THEN Append(lines, join(<<";">>, stack) \o <<" ">> \o IntStr(int(ss[i].weight_ms)))
                    ELSE lines
         IN collapsed_lines(nxt, ss, i + 1, filter_binary)

\* the exception that leaves the loop of generate_collapsed_stacks at samples i..: that of
\* int(sample.weight_ms) for the first sample with a stack whose weight is not finite
RECURSIVE collapsed_raises(_, _, _)
collapsed_raises(ss, i, filter_binary) ==
    IF i > Len(ss) THEN None
    ELSE LET stack == collapsed_stack(<<>>, ss[i].backtrace, Len(ss[i].backtrace), filter_binary)
         IN IF stack # <<>> /\ int_raises(ss[i].weight_ms) # None
            THEN int_raises(ss[i].weight_ms)
            ELSE collapsed_raises(ss, i + 1, filter_binary)

\* the string returned, or the exception raised
generate_collapsed_stacks(ss, filter_binary) ==
    IF collapsed_raises(ss, 1, filter_binary) # None
    THEN collapsed_raises(ss, 1, filter_binary)
    ELSE join(<<"\n">>, collapsed_lines(<<>>, ss, 1, filter_binary))

(***************************************************************************)
(* Inputs of the analyzer: traces as TimeProfileParser.parse builds them   *)
(* (no empty backtrace, no empty name), with at most MaxFrames frames      *)
(***************************************************************************)
S_f == <<"f">>
S_View == <<"V","i","e","w">>
S_0x1 == <<"0","x","1">>
S_binX == <<"b","i","n","X">>
S_binY == <<"b","i","n","Y">>
S_bin == <<"B","I","N">>
S_binx == <<"b","i","n","x">>

\* f in binX, View in binX, View without a binary, a raw address in binX
AggFrames ==
    { Frame(S_f, <<>>, S_binX), Frame(S_View, <<>>, S_binX),
      Frame(S_View, <<>>, None), Frame(S_0x1, <<>>, S_binX) }

\* 1.0 ms and 2.5 ms
AggWeights == {1000, 2500}

\* the ways to split at most t frames over samples: sequences of backtrace lengths
RECURSIVE Shapes(_)
Shapes(t) ==
    {<<>>} \cup UNION { { <<depth>> \o rest : rest \in Shapes(t - depth) } : depth \in 1..t }

RECURSIVE Total(_)
Total(shape) == IF shape = <<>> THEN 0 ELSE Head(shape) + Total(Tail(shape))

\* the trace of the given shape: sample i has weight ws[i] and the next shape[i] frames of fr
TraceOf(shape, ws, fr) ==
    [i \in 1..Len(shape) |->
        Sample(<<>>, <<>>, <<>>, ws[i],
               [j \in 1..shape[i] |-> fr[Total(SubSeq(shape, 1, i - 1)) + j]])]

\* ss is a trace over frames and weights with at most t frames in total
IsTraceUpTo(ss, frames, weights, t) ==
    \E shape \in Shapes(t) :
        \E ws \in [1..Len(shape) -> weights], fr \in [1..Total(shape) -> frames] :
            ss = TraceOf(shape, ws, fr)

NoCall ==
    [op |-> "none", top_n |-> 0, filter_binary |-> None, exclude_system |-> FALSE,
     app_binary |-> None, value |-> <<>>, raised |-> None]

(***************************************************************************)
(* ProfileAnalyzer calls                                                   *)
(***************************************************************************)
GetHotFrames ==
    /\ pc = "done"
    /\ ret.op = "none"
    /\ \E top_n \in 0..MaxTopN, filter_binary \in {None, S_binX}, exclude_system \in BOOLEAN :
          ret' = [op |-> "get_hot_frames", top_n |-> top_n, filter_binary |-> filter_binary,
                  exclude_system |-> exclude_system, app_binary |-> None,
                  value |-> get_hot_frames(samples, top_n, filter_binary, exclude_system),
                  raised |-> None]
    /\ UNCHANGED <<doc, id_cache, pc, row_i, samples>>
    /\ UNCHANGED <<parses, export_dir, report, rpc>>

GetSelfTimeFrames ==
    /\ pc = "done"
    /\ ret.op = "none"
    /\ \E top_n \in 0..MaxTopN, filter_binary \in {None, S_binX} :
          ret' = [op |-> "get_self_time_frames", top_n |-> top_n,
                  filter_binary |-> filter_binary, exclude_system |-> FALSE,
                  app_binary |-> None,
                  value |-> get_self_time_frames(samples, top_n, filter_binary),
                  raised |-> None]
    /\ UNCHANGED <<doc, id_cache, pc, row_i, samples>>
    /\ UNCHANGED <<parses, export_dir, report, rpc>>

GetAppFrames ==
    /\ pc = "done"
    /\ ret.op = "none"
    /\ \E top_n \in 0..MaxTopN, app_binary \in {S_bin, S_binx} :
          ret' = [op |-> "get_app_frames", top_n |-> top_n, filter_binary |-> None,
                  exclude_system |-> FALSE, app_binary |-> app_binary,
                  value |-> get_app_frames(samples, app_binary, top_n),
                  raised |-> None]
    /\ UNCHANGED <<doc, id_cache, pc, row_i, samples>>
    /\ UNCHANGED <<parses, export_dir, report, rpc>>

GetSwiftuiFrames ==
    /\ pc = "done"
    /\ ret.op = "none"
    /\ \E top_n \in 0..MaxTopN :
          ret' = [op |-> "get_swiftui_frames", top_n |-> top_n, filter_binary |-> None,
                  exclude_system |-> FALSE, app_binary |-> None,
                  value |-> get_swiftui_frames(samples, top_n),
                  raised |-> None]
    /\ UNCHANGED <<doc, id_cache, pc, row_i, samples>>
    /\ UNCHANGED <<parses, export_dir, report, rpc>>

GenerateCollapsedStacks ==
    /\ pc = "done"
    /\ ret.op = "none"
    /\ \E filter_binary \in {None, S_bin} :
          ret' = [op |-> "generate_collapsed_stacks", top_n |-> 0,
                  filter_binary |-> filter_binary, exclude_system |-> FALSE,
                  app_binary |-> None,
                  value |-> generate_collapsed_stacks(samples, filter_binary),
                  raised |-> collapsed_raises(samples, 1, filter_binary)]
    /\ UNCHANGED <<doc, id_cache, pc, row_i, samples>>
    /\ UNCHANGED <<parses, export_dir, report, rpc>>

\* the caller takes the returned value; the analyzer keeps nothing of the call
Return ==
    /\ ret.op # "none"
    /\ ret' = NoCall
    /\ UNCHANGED <<doc, id_cache, pc, row_i, samples>>
    /\ UNCHANGED <<parses, export_dir, report, rpc>>

\* no export directory: generate_report is not running, parse has not returned
NoExport == [c \in {} |-> "absent"]

NoReport ==
    /\ parses = 0
    /\ export_dir = NoExport
    /\ report = <<>>
    /\ rpc = "idle"

\* a ProfileAnalyzer over a trace of AggFrames
Init ==
    /\ doc = <<>>
    /\ id_cache = EmptyCache
    /\ pc = "done"
    /\ row_i = 0
    /\ IsTraceUpTo(samples, AggFrames, AggWeights, MaxFrames)
    /\ ret = NoCall
    /\ NoReport

Next ==
    \/ GetHotFrames
    \/ GetSelfTimeFrames
    \/ GetAppFrames
    \/ GetSwiftuiFrames
    \/ GenerateCollapsedStacks
    \/ Return

Spec == Init /\ [][Next]_vars

(***************************************************************************)
(* A ProfileAnalyzer over traces for the collapsed-stack output: names     *)
(* with separators and spaces, binaries that pass and fail the filter,     *)
(* weights with a fraction on both sides of zero                           *)
(***************************************************************************)
S_leaf == <<"l","e","a","f">>
S_mid == <<"m","i","d">>
S_root == <<"r","o","o","t">>
S_a_b == <<"a"," ",";","b"," ",";">>
S_SwiftUI == <<"S","w","i","f","t","U","I">>

CollapsedFrames ==
    { Frame(S_leaf, <<>>, None), Frame(S_mid, <<>>, S_binX), Frame(S_root, <<>>, S_SwiftUI),
      Frame(S_a_b, <<>>, S_binX), Frame(S_0x1, <<>>, S_binX) }

\* 12.9 ms and -12.9 ms
CollapsedWeights == {12900, -12900}

InitCollapsed ==
    /\ doc = <<>>
    /\ id_cache = EmptyCache
    /\ pc = "done"
    /\ row_i = 0
    /\ IsTraceUpTo(samples, CollapsedFrames, CollapsedWeights, MaxFrames)
    /\ ret = NoCall
    /\ NoReport

NextCollapsed ==
    \/ GenerateCollapsedStacks
    \/ Return

SpecCollapsed == InitCollapsed /\ [][NextCollapsed]_vars

(***************************************************************************)
(* Inputs of the parser: documents <trace-query-result> of rows, a row     *)
(* being <row><sample-time fmt="i"/> [weight] [backtrace] </row>           *)
(***************************************************************************)
S_id1 == <<"1">>
S_id2 == <<"2">>
S_id9 == <<"9">>
S_idb1 == <<"b", "1">>
S_idw == <<"w">>
S_addr == <<"0", "x", "a">>
S_2_5_ms == <<"2", ".", "5", " ", "m", "s">>
S_12_5_ms == <<"1", "2", ".", "5", " ", "m", "s">>
S_1234_5_ms == <<"1", ",", "2", "3", "4", ".", "5", " ", "m", "s">>
S_1_2_3_ms == <<"1", ".", "2", ".", "3", " ", "m", "s">>
S_5_s == <<"5", " ", "s">>
S_neg_ms == <<"-", "0", ".", "5", " ", "m", "s">>
S_inf_ms == <<"i", "n", "f", " ", "m", "s">>
S_neg_inf_ms == <<"-", "I", "n", "f", "i", "n", "i", "t", "y", " ", "m", "s">>
S_nan_ms == <<"n", "a", "n", " ", "m", "s">>

\* the elements of one frame of a backtrace; the frame element gets index k
\*   decl  <frame id="1" name="f" addr="0xa"><binary id="2" name="binX"/></frame>
\*   ref   <frame ref="1"/>
\*   raw   <frame name="0x1" addr="0x1"/>
\*   anon  <frame addr="0xa"/>
\*   lost  <frame ref="9" name="View"/>          (nothing declares 9)
\*   hop   <frame id="2" ref="1" name="View"/>
\*   back  <frame id="1" ref="2" name="f" addr="0xa"/>
\*   self  <frame id="9" ref="9" name="View"/>
\*   dup   <frame id="1" name="View"/>
\*   emptyid <frame id="" name="View"/>
\*   binref <frame name="View"><binary ref="2" name="binY"/></frame>
\*   twobin <frame name="View"><binary name="binY"/><binary name="binX"/></frame>
\*   nobinname <frame name="f"><binary/></frame>
FrameElements(kind, bt, k) ==
    CASE kind = "decl" ->
            << Element("frame", bt, S_id1, None, None, S_f, S_addr),
               Element("binary", k, S_id2, None, None, S_binX, None) >>
      [] kind = "ref" -> << Element("frame", bt, None, S_id1, None, None, None) >>
      [] kind = "raw" -> << Element("frame", bt, None, None, None, S_0x1, S_0x1) >>
      [] kind = "anon" -> << Element("frame", bt, None, None, None, None, S_addr) >>
      [] kind = "lost" -> << Element("frame", bt, None, S_id9, None, S_View, None) >>
      [] kind = "hop" -> << Element("frame", bt, S_id2, S_id1, None, S_View, None) >>
      [] kind = "back" -> << Element("frame", bt, S_id1, S_id2, None, S_f, S_addr) >>
      [] kind = "self" -> << Element("frame", bt, S_id9, S_id9, None, S_View, None) >>
      [] kind = "dup" -> << Element("frame", bt, S_id1, None, None, S_View, None) >>
      [] kind = "emptyid" -> << Element("frame", bt, <<>>, None, None, S_View, None) >>
      [] kind = "binref" ->
            << Element("frame", bt, None, None, None, S_View, None),
               Element("binary", k, None, S_id2, None, S_binY, None) >>
      [] kind = "twobin" ->
            << Element("frame", bt, None, None, None, S_View, None),
               Element("binary", k, None, None, None, S_binY, None),
               Element("binary", k, None, None, None, S_binX, None) >>
      [] kind = "nobinname" ->
            << Element("frame", bt, None, None, None, S_f, None),
               Element("binary", k, None, None, None, None, None) >>

\* the elements of the weight of a row
\*   none <nothing>        nofmt <weight/>           plain <weight fmt="2.5 ms"/>
\*   decl <weight id="w" fmt="12.5 ms"/>             ref   <weight ref="w"/>
\*   thousands "1,234.5 ms"   twodots "1.2.3 ms"   empty ""   seconds "5 s"   negative "-0.5 ms"
WeightElements(kind, row) ==
    CASE kind = "none" -> <<>>
      [] kind = "nofmt" -> << Element("weight", row, None, None, None, None, None) >>
      [] kind = "plain" -> << Element("weight", row, None, None, S_2_5_ms, None, None) >>
      [] kind = "decl" -> << Element("weight", row, S_idw, None, S_12_5_ms, None, None) >>
      [] kind = "ref" -> << Element("weight", row, None, S_idw, None, None, None) >>
      [] kind = "thousands" -> << Element("weight", row, None, None, S_1234_5_ms, None, None) >>
      [] kind = "twodots" -> << Element("weight", row, None, None, S_1_2_3_ms, None, None) >>
      [] kind = "empty" -> << Element("weight", row, None, None, <<>>, None, None) >>
      [] kind = "seconds" -> << Element("weight", row, None, None, S_5_s, None, None) >>
      [] kind = "negative" -> << Element("weight", row, None, None, S_neg_ms, None, None) >>
      [] kind = "inf" -> << Element("weight", row, None, None, S_inf_ms, None, None) >>
      [] kind = "neginf" -> << Element("weight", row, None, None, S_neg_inf_ms, None, None) >>
      [] kind = "nan" -> << Element("weight", row, None, None, S_nan_ms, None, None) >>

WeightKinds ==
    {"none", "nofmt", "plain", "decl", "ref", "thousands", "twodots", "empty", "seconds",
     "negative"}

\* d with the frames kinds[i..] added as children of the backtrace element bt
RECURSIVE AddFrames(_, _, _, _)
AddFrames(d, bt, kinds, i) ==
    IF i > Len(kinds) THEN d
    ELSE AddFrames(d \o FrameElements(kinds[i], bt, Len(d) + 1), bt, kinds, i + 1)

\* d with one more row, the i-th: depth -2 is <backtrace ref="b1"/>, depth -1 is no
\* backtrace element, depth n >= 0 is <backtrace id="bi"> with n frames
AddRow(d, i, weight, depth, kinds) ==
    LET row == Len(d) + 1
        head == d \o << Element("row", 1, None, None, None, None, None),
                        Element("sample-time", row, None, None, <<DigitChar(i)>>, None, None) >>
                  \o WeightElements(weight, row)
        bt == Len(head) + 1
    IN IF depth = -1 THEN head
       ELSE IF depth = -2
            THEN Append(head, Element("backtrace", row, None, S_idb1, None, None, None))
       ELSE AddFrames(Append(head, Element("backtrace", row, <<"b", DigitChar(i)>>, None,
                                           None, None, None)),
                      bt, kinds, 1)

\* the number of frames of the rows of a shape
RECURSIVE FramesOf(_)
FramesOf(shape) ==
    IF shape = <<>> THEN 0 ELSE Max(Head(shape), 0) + FramesOf(Tail(shape))

\* the document whose i-th row has weight weights[i] and the next shape[i] frames of kinds
RECURSIVE DocFrom(_, _, _, _, _)
DocFrom(d, i, shape, weights, kinds) ==
    IF i > Len(shape) THEN d
    ELSE LET before == FramesOf(SubSeq(shape, 1, i - 1))
         IN DocFrom(AddRow(d, i, weights[i], shape[i],
                           SubSeq(kinds, before + 1, before + Max(shape[i], 0))),
                    i + 1, shape, weights, kinds)

DocOf(shape, weights, kinds) ==
    DocFrom(<< Element("trace-query-result", 0, None, None, None, None, None) >>,
            1, shape, weights, kinds)

\* at most MaxRows rows
MaxRows == 2

\* the shapes of documents of at most r rows and t frames
RECURSIVE DocShapes(_, _)
DocShapes(r, t) ==
    {<<>>} \cup
    (IF r = 0 THEN {}
     ELSE UNION { { <<depth>> \o rest : rest \in DocShapes(r - 1, t - Max(depth, 0)) }
                  : depth \in -2..t })

\* a parser on a document whose rows all weigh 2.5 ms and whose frames declare, reference,
\* are raw addresses or have no name
InitParse ==
    /\ \E shape \in DocShapes(MaxRows, MaxFrames) :
          \E kinds \in [1..FramesOf(shape) -> {"decl", "ref", "raw", "anon"}] :
             doc = DocOf(shape, [i \in 1..Len(shape) |-> "plain"], kinds)
    /\ id_cache = EmptyCache
    /\ pc = "start"
    /\ row_i = 0
    /\ samples = <<>>
    /\ ret = NoCall
    /\ NoReport

NextParse ==
    \/ ParseBegin
    \/ ParseRow
    \/ ParseReturn

SpecParse == InitParse /\ [][NextParse]_vars

\* a parser on a document of frames that declare, reference and reference in vain
InitResolve ==
    /\ \E shape \in DocShapes(MaxRows, MaxFrames) :
          \E kinds \in [1..FramesOf(shape) -> {"decl", "ref", "lost"}] :
             doc = DocOf(shape, [i \in 1..Len(shape) |-> "plain"], kinds)
    /\ id_cache = EmptyCache
    /\ pc = "start"
    /\ row_i = 0
    /\ samples = <<>>
    /\ ret = NoCall
    /\ NoReport

NextResolve ==
    \/ ParseBegin
    \/ ParseRow
    \/ ParseReturn
    \/ ResolveRef
    \/ Return

SpecResolve == InitResolve /\ [][NextResolve]_vars

\* a parser on a document whose rows all have the backtrace [f] and any weight
InitWeight ==
    /\ \E shape \in {sh \in DocShapes(MaxRows, MaxRows) : \A i \in 1..Len(sh) : sh[i] = 1} :
          \E weights \in [1..Len(shape) -> WeightKinds] :
             doc = DocOf(shape, weights, [i \in 1..Len(shape) |-> "decl"])
    /\ id_cache = EmptyCache
    /\ pc = "start"
    /\ row_i = 0
    /\ samples = <<>>
    /\ ret = NoCall
    /\ NoReport

NextWeight ==
    \/ ParseBegin
    \/ ParseRow
    \/ ParseReturn

SpecWeight == InitWeight /\ [][NextWeight]_vars

(***************************************************************************)
(* Vocabulary of the properties, stated on the trace itself                *)
(***************************************************************************)
\* the name is a raw address: it starts with "0x"
IsRaw(name) == Len(name) >= 2 /\ name[1] = "0" /\ name[2] = "x"

\* the positions <<i, j>> of the frames of a trace
Positions(ss) == UNION { { <<i, j>> : j \in 1..Len(ss[i].backtrace) } : i \in 1..Len(ss) }

FrameAt(ss, p) == ss[p[1]].backtrace[p[2]]

\* the float sum of the weights of the samples at the indices of S, added in trace order
RECURSIVE SumWeights(_, _)
SumWeights(ss, S) ==
    IF S = {} THEN 0
    ELSE LET i == CHOOSE i \in S : \A j \in S : j <= i
         IN fadd(SumWeights(ss, S \ {i}), ss[i].weight_ms)

\* the entries of a result list that carry the name
EntriesOf(value, name) == {k \in 1..Len(value) : value[k][1] = name}

RECURSIVE SumField(_, _, _)
SumField(value, f, k) == IF k > Len(value) THEN 0 ELSE value[k][f] + SumField(value, f, k + 1)

\* the samples whose backtrace holds a frame with the name
SamplesWithName(ss, name) ==
    {i \in 1..Len(ss) : \E j \in 1..Len(ss[i].backtrace) : ss[i].backtrace[j].name = name}

NamedNames(ss) == {FrameAt(ss, p).name : p \in {q \in Positions(ss) : ~IsRaw(FrameAt(ss, q).name)}}

(***************************************************************************)
(* C1: inclusive aggregation without filters and with top_n at least the   *)
(* number of names: every name that is not a raw address is reported once, *)
(* its count is the number of samples whose backtrace holds the name and   *)
(* its weight the sum of those samples' weights, so a name occurring twice *)
(* in one backtrace adds 1 and the sample's weight once.                   *)
(***************************************************************************)
C1_InclusiveCountsSamplesOnce ==
    ( /\ ret.op = "get_hot_frames"
      /\ ret.filter_binary = None
      /\ ~ret.exclude_system
      /\ ret.top_n >= Cardinality(NamedNames(samples)) )
    => \A name \in NamedNames(samples) :
          /\ Cardinality(EntriesOf(ret.value, name)) = 1
          /\ \A k \in EntriesOf(ret.value, name) :
                /\ ret.value[k][2] = Cardinality(SamplesWithName(samples, name))
                /\ ret.value[k][3] = SumWeights(samples, SamplesWithName(samples, name))

\* a name occurs twice in one backtrace and once in another sample: count 2
C1_Witness ==
    /\ ret.op = "get_hot_frames"
    /\ ret.filter_binary = None
    /\ ~ret.exclude_system
    /\ Len(samples) = 2
    /\ \E j1, j2 \in 1..Len(samples[1].backtrace) :
          j1 < j2 /\ samples[1].backtrace[j1].name = S_f /\ samples[1].backtrace[j2].name = S_f
    /\ samples[2].backtrace[1].name = S_f
    /\ \E k \in 1..Len(ret.value) : ret.value[k][1] = S_f /\ ret.value[k][2] = 2

(***************************************************************************)
(* C2: leaf-only aggregation: a sample contributes to the name of its      *)
(* first frame, in backtrace order, that is no raw address and passes the  *)
(* optional binary filter, and to no name when it has no such frame; with  *)
(* top_n large enough the counts add up to the number of samples that have *)
(* such a leaf and the weights to the sum of those samples' weights.       *)
(***************************************************************************)
PassesBinary(frame, filter_binary) ==
    filter_binary = None \/ filter_binary = <<>> \/ frame.binary = filter_binary

QualifiesAsLeaf(frame, filter_binary) ==
    ~IsRaw(frame.name) /\ PassesBinary(frame, filter_binary)

\* the positions of the qualifying leaves: at most one per sample
LeafPositions(ss, filter_binary) ==
    {p \in Positions(ss) :
        /\ QualifiesAsLeaf(FrameAt(ss, p), filter_binary)
        /\ \A j \in 1..(p[2] - 1) : ~QualifiesAsLeaf(ss[p[1]].backtrace[j], filter_binary)}

SamplesWithLeaf(ss, filter_binary, name) ==
    {p[1] : p \in {q \in LeafPositions(ss, filter_binary) : FrameAt(ss, q).name = name}}

LeafNames(ss, filter_binary) == {FrameAt(ss, p).name : p \in LeafPositions(ss, filter_binary)}

C2_LeafOnlyOneFramePerSample ==
    ( /\ ret.op = "get_self_time_frames"
      /\ ret.top_n >= Cardinality(LeafNames(samples, ret.filter_binary)) )
    => LET fb == ret.filter_binary
           withLeaf == {p[1] : p \in LeafPositions(samples, fb)}
       IN /\ \A k \in 1..Len(ret.value) : ret.value[k][1] \in LeafNames(samples, fb)
          /\ \A name \in LeafNames(samples, fb) :
                /\ Cardinality(EntriesOf(ret.value, name)) = 1
                /\ \A k \in EntriesOf(ret.value, name) :
                      /\ ret.value[k][2] = Cardinality(SamplesWithLeaf(samples, fb, name))
                      /\ ret.value[k][3] = SumWeights(samples, SamplesWithLeaf(samples, fb, name))
          /\ SumField(ret.value, 2, 1) = Cardinality(withLeaf)
          /\ SumField(ret.value, 3, 1) = SumWeights(samples, withLeaf)

\* one sample whose leaf is its second frame (the first fails the filter), one without a leaf
C2_Witness ==
    /\ ret.op = "get_self_time_frames"
    /\ ret.filter_binary = S_binX
    /\ Len(samples) = 2
    /\ <<1, 2>> \in LeafPositions(samples, S_binX)
    /\ ~IsRaw(samples[1].backtrace[1].name)
    /\ \A j \in 1..Len(samples[2].backtrace) :
          ~QualifiesAsLeaf(samples[2].backtrace[j], S_binX)
    /\ Len(ret.value) = 1
    /\ ret.value[1][2] = 1

(***************************************************************************)
(* C3: get_hot_frames, get_self_time_frames and get_app_frames return the  *)
(* first min(top_n, k) entries of the ranking of the k qualifying names:   *)
(* heavier names first, names of equal weight in the order in which they   *)
(* were first met walking the samples and, in each, the frames.            *)
(***************************************************************************)
\* the frame at p adds to its name under the call's policy and filters
Contributes(ss, call, p) ==
    CASE call.op = "get_hot_frames" ->
            ~hot_skip(FrameAt(ss, p), call.filter_binary, call.exclude_system)
      [] call.op = "get_self_time_frames" -> p \in LeafPositions(ss, call.filter_binary)
      [] call.op = "get_app_frames" -> ~app_skip(FrameAt(ss, p), call.app_binary)
      [] OTHER -> FALSE

ContribNames(ss, call) ==
    {FrameAt(ss, p).name : p \in {q \in Positions(ss) : Contributes(ss, call, q)}}

\* weight[name]: the sum of the weights of the samples in which a frame adds to the name;
\* first[name]: the first position, in traversal order, at which a frame adds to the name
ContribTable(ss, call) ==
    LET at == {p \in Positions(ss) : Contributes(ss, call, p)}
        of(name) == {p \in at : FrameAt(ss, p).name = name}
        names == {FrameAt(ss, p).name : p \in at}
    IN [weight |-> [name \in names |-> SumWeights(ss, {p[1] : p \in of(name)})],
        first |-> [name \in names |->
                     CHOOSE p \in of(name) :
                        \A q \in of(name) : p = q \/ p[1] < q[1] \/ (p[1] = q[1] /\ p[2] < q[2])]]

Before(p, q) == p[1] < q[1] \/ (p[1] = q[1] /\ p[2] < q[2])

\* x > y and x = y for floats: false when either is nan
FGt(x, y) == x # NaN /\ y # NaN /\ x > y
FEq(x, y) == x # NaN /\ y # NaN /\ x = y

\* a stands before b in the full ranking
RanksBefore(table, a, b) ==
    \/ FGt(table.weight[a], table.weight[b])
    \/ (FEq(table.weight[a], table.weight[b]) /\ Before(table.first[a], table.first[b]))

IsRanked(op) == op \in {"get_hot_frames", "get_self_time_frames", "get_app_frames"}

C3_TopNOfStableRanking ==
    IsRanked(ret.op) =>
        LET table == ContribTable(samples, ret)
            names == DOMAIN table.weight
            n == Len(ret.value)
        IN /\ n = Min(ret.top_n, Cardinality(names))
           /\ \A k \in 1..n :
                 /\ ret.value[k][1] \in names
                 /\ ret.value[k][3] = table.weight[ret.value[k][1]]
           /\ \A k, m \in 1..n :
                 k < m => RanksBefore(table, ret.value[k][1], ret.value[m][1])
           /\ \A k \in 1..n : \A name \in names :
                 (\A m \in 1..n : ret.value[m][1] # name)
                    => RanksBefore(table, ret.value[k][1], name)

(***************************************************************************)
(* An analyzer over traces of three names whose weights are 1.0 ms, 2.0 ms *)
(* and nan (the weight parse() stores for a row of "nan ms")               *)
(***************************************************************************)
InitRanking ==
    /\ doc = <<>>
    /\ id_cache = EmptyCache
    /\ pc = "done"
    /\ row_i = 0
    /\ LET frames == { Frame(S_f, <<>>, S_binX), Frame(S_View, <<>>, S_binX),
                       Frame(S_root, <<>>, S_binX) }
       IN IsTraceUpTo(samples, frames, {1000, 2000, NaN}, MaxFrames)
    /\ ret = NoCall
    /\ NoReport

NextRanking ==
    \/ GetHotFrames
    \/ GetSelfTimeFrames
    \/ GetAppFrames
    \/ Return

SpecRanking == InitRanking /\ [][NextRanking]_vars

(***************************************************************************)
(* C7: no name that starts with "0x" is in a result of get_hot_frames,     *)
(* get_self_time_frames, get_app_frames or get_swiftui_frames, or is a     *)
(* frame of a line of generate_collapsed_stacks; and in inclusive          *)
(* aggregation the counts and weights of the other names are those of the  *)
(* trace with the raw-address frames taken out.                            *)
(***************************************************************************)
\* s.split(sep) for a one-character sep
RECURSIVE Split(_, _)
Split(s, sep) ==
    LET at == {i \in 1..Len(s) : s[i] = sep} IN
    IF at = {} THEN <<s>>
    ELSE LET i == CHOOSE i \in at : \A k \in at : i <= k
         IN <<SubSeq(s, 1, i - 1)>> \o Split(Drop(s, i + 1), sep)

\* the lines of a text, none for the empty text
LinesOf(text) == IF text = <<>> THEN <<>> ELSE Split(text, "\n")

\* the frames of a collapsed-stack line: the fields before the last space
LastSpace(line) == CHOOSE i \in 1..Len(line) : line[i] = " " /\ \A k \in (i + 1)..Len(line) : line[k] # " "
StackOfLine(line) == Split(SubSeq(line, 1, LastSpace(line) - 1), ";")
WeightOfLine(line) == Drop(line, LastSpace(line) + 1)

\* the backtrace without its raw-address frames
RECURSIVE WithoutRaw(_)
WithoutRaw(backtrace) ==
    IF backtrace = <<>> THEN <<>>
    ELSE IF IsRaw(Head(backtrace).name) THEN WithoutRaw(Tail(backtrace))
    ELSE <<Head(backtrace)>> \o WithoutRaw(Tail(backtrace))

StripRaw(ss) == [i \in 1..Len(ss) |-> [ss[i] EXCEPT !.backtrace = WithoutRaw(@)]]

\* the frame passes the filters of inclusive aggregation, whatever its name
PassesInclusiveFilters(frame, call) ==
    /\ PassesBinary(frame, call.filter_binary)
    /\ ~(call.exclude_system /\ is_system_frame(frame))

InclusiveSamples(ss, call, name) ==
    {i \in 1..Len(ss) : \E j \in 1..Len(ss[i].backtrace) :
        /\ ss[i].backtrace[j].name = name
        /\ PassesInclusiveFilters(ss[i].backtrace[j], call)}

C7_RawAddressesExcluded ==
    /\ ret.op \in {"get_hot_frames", "get_self_time_frames", "get_app_frames",
                   "get_swiftui_frames"}
          => \A k \in 1..Len(ret.value) : ~IsRaw(ret.value[k][1])
    /\ ret.op = "generate_collapsed_stacks"
          => \A l \in 1..Len(LinesOf(ret.value)) :
                \A k \in 1..Len(StackOfLine(LinesOf(ret.value)[l])) :
                    ~IsRaw(StackOfLine(LinesOf(ret.value)[l])[k])
    /\ ret.op = "get_hot_frames"
          => \A k \in 1..Len(ret.value) :
                /\ ret.value[k][2]
                      = Cardinality(InclusiveSamples(StripRaw(samples), ret, ret.value[k][1]))
                /\ ret.value[k][3]
                      = SumWeights(samples, InclusiveSamples(StripRaw(samples), ret, ret.value[k][1]))

\* a returned name stands in a backtrace between two raw-address frames
C7_Witness ==
    /\ ret.op = "get_hot_frames"
    /\ Len(ret.value) >= 1
    /\ \E i \in 1..Len(samples) :
          /\ Len(samples[i].backtrace) = 3
          /\ IsRaw(samples[i].backtrace[1].name)
          /\ samples[i].backtrace[2].name = ret.value[1][1]
          /\ IsRaw(samples[i].backtrace[3].name)

(***************************************************************************)
(* C8: without a filter, the line of a sample lists its frames that are no *)
(* raw addresses root first (the reverse of the backtrace), each name with *)
(* every ";" turned into ":" and every space into "_", separated by ";"    *)
(* with none at the end, then one space and the weight truncated toward    *)
(* zero; [leaf, mid, root] with weight 12.9 gives "root;mid;leaf 12".      *)
(***************************************************************************)
SanitizedChar(c) == IF c = ";" THEN ":" ELSE IF c = " " THEN "_" ELSE c
Sanitized(name) == [i \in 1..Len(name) |-> SanitizedChar(name[i])]

\* the frame survives generate_collapsed_stacks
Survives(frame, filter_binary) ==
    /\ ~IsRaw(frame.name)
    /\ ~( /\ Truthy(filter_binary)
          /\ Truthy(frame.binary)
          /\ ~contains(lower(frame.binary), lower(filter_binary)) )

RECURSIVE Survivors(_, _)
Survivors(backtrace, filter_binary) ==
    IF backtrace = <<>> THEN <<>>
    ELSE IF Survives(Head(backtrace), filter_binary)
         THEN <<Head(backtrace)>> \o Survivors(Tail(backtrace), filter_binary)
    ELSE Survivors(Tail(backtrace), filter_binary)

\* the sanitized names of the surviving frames, root first
ExpectedStack(sample, filter_binary) ==
    LET sv == Survivors(sample.backtrace, filter_binary)
    IN [k \in 1..Len(sv) |-> Sanitized(sv[Len(sv) + 1 - k].name)]

\* the indices of the samples with a surviving frame, in trace order
RECURSIVE EmittingFrom(_, _, _)
EmittingFrom(ss, i, filter_binary) ==
    IF i > Len(ss) THEN <<>>
    ELSE IF Survivors(ss[i].backtrace, filter_binary) # <<>>
         THEN <<i>> \o EmittingFrom(ss, i + 1, filter_binary)
    ELSE EmittingFrom(ss, i + 1, filter_binary)

\* t is w (thousandths) truncated toward zero
IsTruncation(t, w) ==
    IF w >= 0 THEN t * 1000 <= w /\ w < (t + 1) * 1000
    ELSE (t - 1) * 1000 < w /\ w <= t * 1000

IsDigit(c) == c \in {"0", "1", "2", "3", "4", "5", "6", "7", "8", "9"}
DigitValue(c) == CHOOSE d \in 0..9 : DigitChar(d) = c

RECURSIVE NumeralValue(_)
NumeralValue(s) == IF s = <<>> THEN 0 ELSE 10 * NumeralValue(SubSeq(s, 1, Len(s) - 1)) + DigitValue(s[Len(s)])

\* s is the decimal numeral of the integer t
IsNumeralOf(s, t) ==
    LET digits == IF s # <<>> /\ s[1] = "-" THEN Tail(s) ELSE s
    IN /\ digits # <<>>
       /\ \A k \in 1..Len(digits) : IsDigit(digits[k])
       /\ (Len(digits) > 1 => digits[1] # "0")
       /\ (s[1] = "-") = (t < 0)
       /\ NumeralValue(digits) = (IF t < 0 THEN -t ELSE t)

LineIsOf(line, sample, filter_binary) ==
    /\ \E i \in 1..Len(line) : line[i] = " "
    /\ StackOfLine(line) = ExpectedStack(sample, filter_binary)
    /\ \E t \in ((sample.weight_ms \div 1000) - 1)..((sample.weight_ms \div 1000) + 1) :
          IsTruncation(t, sample.weight_ms) /\ IsNumeralOf(WeightOfLine(line), t)

Line_root_mid_leaf_12 ==
    <<"r","o","o","t",";","m","i","d",";","l","e","a","f"," ","1","2">>

C8_CollapsedLineFormat ==
    (ret.op = "generate_collapsed_stacks" /\ ret.filter_binary = None)
    => LET lines == LinesOf(ret.value)
           emitting == EmittingFrom(samples, 1, None)
       IN /\ Len(lines) = Len(emitting)
          /\ \A k \in 1..Len(lines) : LineIsOf(lines[k], samples[emitting[k]], None)
          /\ \A k \in 1..Len(lines) :
                ( /\ [j \in 1..Len(samples[emitting[k]].backtrace)
                          |-> samples[emitting[k]].backtrace[j].name] = <<S_leaf, S_mid, S_root>>
                  /\ samples[emitting[k]].weight_ms = 12900 )
                => lines[k] = Line_root_mid_leaf_12

\* the example of the claim: backtrace [leaf, mid, root], weight 12.9
C8_Witness ==
    /\ ret.op = "generate_collapsed_stacks"
    /\ ret.filter_binary = None
    /\ Len(samples) = 1
    /\ [j \in 1..Len(samples[1].backtrace) |-> samples[1].backtrace[j].name]
          = <<S_leaf, S_mid, S_root>>
    /\ samples[1].weight_ms = 12900
    /\ ret.value = Line_root_mid_leaf_12

(***************************************************************************)
(* C9: generate_collapsed_stacks gives one line to every sample that keeps *)
(* a frame after the raw addresses are dropped and the filter is applied,  *)
(* and nothing, not even an empty line, to a sample that keeps none; the   *)
(* lines stand in sample order and are as many as those samples.           *)
(***************************************************************************)
C9_OneLinePerSurvivingSample ==
    ret.op = "generate_collapsed_stacks"
    => LET lines == LinesOf(ret.value)
           emitting == EmittingFrom(samples, 1, ret.filter_binary)
       IN /\ Len(lines)
                = Cardinality({i \in 1..Len(samples) :
                                 \E j \in 1..Len(samples[i].backtrace) :
                                    Survives(samples[i].backtrace[j], ret.filter_binary)})
          /\ \A k \in 1..Len(lines) : lines[k] # <<>>
          /\ Len(lines) = Len(emitting)
          /\ \A k \in 1..Len(lines) :
                LineIsOf(lines[k], samples[emitting[k]], ret.filter_binary)

\* three samples, the middle one loses its only frame to the filter: two lines
C9_Witness ==
    /\ ret.op = "generate_collapsed_stacks"
    /\ ret.filter_binary = S_bin
    /\ Len(samples) = 3
    /\ EmittingFrom(samples, 1, S_bin) = <<1, 3>>
    /\ ~IsRaw(samples[2].backtrace[1].name)
    /\ samples[1].weight_ms # samples[3].weight_ms
    /\ Len(LinesOf(ret.value)) = 2

(***************************************************************************)
(* Vocabulary of the properties, stated on the document itself             *)
(***************************************************************************)
HasRef(elem) == elem.ref # None /\ elem.ref # <<>>

\* the elements that declare the identifier
Declaring(d, id) == {k \in 1..Len(d) : d[k].id = id}

\* the element that stands for element k: the last one that declares the identifier k
\* refers to, k itself when it refers to nothing or to an identifier nothing declares
Resolved(d, k) ==
    IF HasRef(d[k]) /\ Declaring(d, d[k].ref) # {}
    THEN CHOOSE r \in Declaring(d, d[k].ref) : \A m \in Declaring(d, d[k].ref) : m <= r
    ELSE k

RowsOf(d) == iter(d, 1, "row")

HasName(elem) == elem.name # None /\ elem.name # <<>>

RECURSIVE NamedOnly(_, _)
NamedOnly(d, elems) ==
    IF elems = <<>> THEN <<>>
    ELSE IF HasName(d[Head(elems)]) THEN <<Head(elems)>> \o NamedOnly(d, Tail(elems))
    ELSE NamedOnly(d, Tail(elems))

\* the resolved frame elements of a row that have a name, in traversal order
NamedFrameElements(d, row) ==
    LET bt == find(d, row, "backtrace")
        frames == IF bt = 0 THEN <<>> ELSE iter(d, Resolved(d, bt), "frame")
    IN NamedOnly(d, [i \in 1..Len(frames) |-> Resolved(d, frames[i])])

RECURSIVE Yielding(_, _)
Yielding(d, rows) ==
    IF rows = <<>> THEN <<>>
    ELSE IF NamedFrameElements(d, Head(rows)) # <<>>
         THEN <<Head(rows)>> \o Yielding(d, Tail(rows))
    ELSE Yielding(d, Tail(rows))

\* the rows handled so far that have a named frame
YieldingSoFar == Yielding(doc, SubSeq(RowsOf(doc), 1, row_i))

NamesOfSample(sample) == [j \in 1..Len(sample.backtrace) |-> sample.backtrace[j].name]

(***************************************************************************)
(* C4: _resolve_ref of an element whose ref names an indexed identifier    *)
(* returns the indexed element, which declares that identifier; of an      *)
(* element without ref, or with a ref nothing declares, it returns the     *)
(* element itself.                                                         *)
(***************************************************************************)
C4_ResolveRefOneLookup ==
    ret.op = "_resolve_ref"
    => LET elem == doc[ret.elem]
       IN IF HasRef(elem) /\ Declaring(doc, elem.ref) # {}
          THEN /\ elem.ref \in DOMAIN id_cache
               /\ ret.value = id_cache[elem.ref]
               /\ doc[ret.value].id = elem.ref
               /\ \A key \in {"fmt", "name", "addr"} :
                     \E k \in Declaring(doc, elem.ref) : doc[ret.value][key] = doc[k][key]
          ELSE ret.value = ret.elem

\* a frame that refers to a frame declared later in the document resolves to it
C4_Witness ==
    /\ ret.op = "_resolve_ref"
    /\ doc[ret.elem].tag = "frame"
    /\ doc[ret.elem].ref = S_id1
    /\ ret.value > ret.elem
    /\ doc[ret.value].name = S_f

(***************************************************************************)
(* C5: parse yields one Sample for each row whose resolved backtrace has a *)
(* frame with a name, none for any other row, in the order of the rows; no *)
(* Sample has an empty backtrace or a frame with an empty name.            *)
(***************************************************************************)
C5_OneSamplePerRowWithNamedFrame ==
    /\ pc \in {"rows", "done"}
          => /\ Len(samples) = Len(YieldingSoFar)
             /\ \A k \in 1..Len(samples) :
                   samples[k].time = doc[find(doc, YieldingSoFar[k], "sample-time")].fmt
    /\ pc = "done" => row_i = Len(RowsOf(doc))
    /\ \A k \in 1..Len(samples) :
          /\ samples[k].backtrace # <<>>
          /\ \A j \in 1..Len(samples[k].backtrace) : samples[k].backtrace[j].name # <<>>

\* of two rows, the first has frames but none with a name: the one Sample is the second row's
C5_Witness ==
    /\ pc = "done"
    /\ Len(RowsOf(doc)) = 2
    /\ iter(doc, RowsOf(doc)[1], "frame") # <<>>
    /\ Len(samples) = 1
    /\ samples[1].time = <<"2">>

(***************************************************************************)
(* C6: the backtrace of a Sample lists the named frames of its row in the  *)
(* order in which the frame elements are traversed under the resolved      *)
(* backtrace element; frames whose name starts with "0x" are kept.         *)
(***************************************************************************)
C6_BacktraceKeepsOrderAndRawFrames ==
    (pc \in {"rows", "done"} /\ Len(samples) = Len(YieldingSoFar))
    => \A k \in 1..Len(samples) :
          LET elems == NamedFrameElements(doc, YieldingSoFar[k])
          IN /\ NamesOfSample(samples[k]) = [j \in 1..Len(elems) |-> doc[elems[j]].name]
             /\ Cardinality({j \in 1..Len(samples[k].backtrace) :
                               IsRaw(samples[k].backtrace[j].name)})
                   = Cardinality({j \in 1..Len(elems) : IsRaw(doc[elems[j]].name)})

\* a raw address as leaf, then a frame given by reference
C6_Witness ==
    /\ pc = "done"
    /\ \E k \in 1..Len(samples) :
          /\ NamesOfSample(samples[k]) = <<S_0x1, S_f>>
          /\ doc[iter(doc, YieldingSoFar[k], "frame")[2]].ref = S_id1

(***************************************************************************)
(* C10: the weight of a Sample is the number in the formatted weight of    *)
(* its row with "ms" and "," removed ("1,234.5 ms" is 1234.5, "12.5 ms" is *)
(* 12.5); it is 1.0 when the row has no weight element, the element has no *)
(* formatted value or the conversion fails, and the row yields its Sample. *)
(***************************************************************************)
\* the formatted weights that float() rejects once "ms" and "," are removed
Unparseable == {<<>>, S_1_2_3_ms, S_5_s}

ExpectedWeight(d, row) ==
    LET w == find(d, row, "weight")
        fmt == d[Resolved(d, w)].fmt
    IN IF w = 0 THEN 1000
       ELSE IF fmt = None THEN 1000
       ELSE IF fmt \in Unparseable THEN 1000
       ELSE CASE fmt = S_1234_5_ms -> 1234500
              [] fmt = S_12_5_ms -> 12500
              [] fmt = S_2_5_ms -> 2500
              [] fmt = S_neg_ms -> -500

C10_WeightParsedOrOne ==
    pc \in {"rows", "done"}
    => /\ Len(samples) = row_i
       /\ \A k \in 1..Len(samples) :
             samples[k].weight_ms = ExpectedWeight(doc, RowsOf(doc)[k])

\* "1,234.5 ms" and a weight that does not parse
C10_Witness ==
    /\ pc = "done"
    /\ Len(samples) = 2
    /\ \A k \in 1..2 : find(doc, RowsOf(doc)[k], "weight") # 0
    /\ doc[find(doc, RowsOf(doc)[1], "weight")].fmt = S_1234_5_ms
    /\ samples[1].weight_ms = 1234500
    /\ doc[find(doc, RowsOf(doc)[2], "weight")].fmt = S_1_2_3_ms
    /\ samples[2].weight_ms = 1000

(***************************************************************************)
(* C11: every Sample of a Trace that parse produces has a weight strictly  *)
(* greater than zero, whatever the formatted weight of its row.            *)
(***************************************************************************)
C11_WeightPositive ==
    \A k \in 1..Len(samples) : samples[k].weight_ms > 0

(***************************************************************************)
(* generate_report: the categories of an export directory, one file each,  *)
(* handled in this order.  A file is absent, malformed (ET.parse raises),  *)
(* or well formed; a well-formed file is abstracted to one row that yields *)
(* one record, with numbers that are harmless ("records") or that make the *)
(* block of the category raise ("raising").                                *)
(***************************************************************************)
Categories ==
    << "toc", "life-cycle-period", "dyld-library-load", "time-profile", "swiftui-updates",
       "potential-hangs", "hitches", "Leaks-Leaks", "Allocations-Statistics", "energy-impact" >>

FileStates == {"absent", "malformed", "records", "raising"}

\* the categories whose heading is appended whenever the file exists
AlwaysHeaded == {"toc", "potential-hangs", "hitches", "Leaks-Leaks"}

\* the parsers whose parse() wraps ET.parse in try / except Exception: return []
GuardedCategories ==
    {"life-cycle-period", "dyld-library-load", "swiftui-updates", "potential-hangs", "hitches",
     "Leaks-Leaks", "Allocations-Statistics", "energy-impact"}

\* what follows category c in generate_report: the next category, or the return
after(c) ==
    LET k == CHOOSE i \in 1..Len(Categories) : Categories[i] = c
    IN IF k = Len(Categories) THEN "return" ELSE Categories[k + 1]

\* parse_toc and the parse() of the guarded parser of category c on an existing file: the
\* exception of ET.parse is caught and the result is empty; the rows are parsed outside
\* the try, and what a row raises leaves parse() (LeaksParser reads its numbers with int()
\* alone and raises nothing)
guarded_parse(c, state) ==
    IF state = "malformed" THEN [raised |-> FALSE, value |-> <<>>]
    ELSE IF state = "raising" /\ c # "Leaks-Leaks" THEN [raised |-> TRUE, value |-> <<>>]
    ELSE [raised |-> FALSE, value |-> <<"record">>]

\* TimeProfileParser.parse on an existing file: ET.parse is called outside any try; the
\* weight of the row is read as float() reads it
time_profile_parse(state) ==
    IF state = "malformed" THEN [raised |-> TRUE, value |-> <<>>]
    ELSE [raised |-> FALSE,
          value |-> << Sample(<<>>, <<>>, <<>>,
                              IF state = "raising" THEN Infinity ELSE 1000,
                              << Frame(<<"f">>, <<>>, None) >>) >>]

\* lines after the section of category c: the section is appended when there are records,
\* the heading of some categories whenever the file exists
with_section(lines, c, records) ==
    IF records # <<>> \/ c \in AlwaysHeaded THEN Append(lines, <<c, Len(records)>>) ELSE lines

\* generate_report: the table of contents
ReportToc ==
    /\ rpc = "toc"
    /\ report' = IF export_dir["toc"] # "absent"
                 THEN with_section(report, "toc", guarded_parse("toc", export_dir["toc"]).value)
                 ELSE report
    /\ rpc' = after("toc")
    /\ UNCHANGED <<doc, id_cache, pc, row_i, samples, ret, parses, export_dir>>

\* generate_report: a category whose parser catches the exception of ET.parse; an exception
\* of the rows, or of the block itself (total_bytes / 1024 of the leaks), leaves
\* generate_report
ReportGuarded ==
    /\ rpc \in GuardedCategories
    /\ LET parsed == guarded_parse(rpc, export_dir[rpc])
       IN IF export_dir[rpc] = "absent"
          THEN report' = report /\ rpc' = after(rpc)
          ELSE IF parsed.raised \/ (rpc = "Leaks-Leaks" /\ export_dir[rpc] = "raising")
          THEN report' = report /\ rpc' = "raised"
          ELSE report' = with_section(report, rpc, parsed.value) /\ rpc' = after(rpc)
    /\ UNCHANGED <<doc, id_cache, pc, row_i, samples, ret, parses, export_dir>>

\* generate_report: the time profile; an exception of parse(), or of
\* generate_collapsed_stacks on the samples, leaves generate_report
ReportTimeProfile ==
    /\ rpc = "time-profile"
    /\ LET parsed == time_profile_parse(export_dir[rpc])
       IN IF export_dir[rpc] = "absent"
          THEN report' = report /\ rpc' = after(rpc)
          ELSE IF parsed.raised
          THEN report' = report /\ rpc' = "raised"
          ELSE IF parsed.value # <<>> /\ collapsed_raises(parsed.value, 1, None) # None
          THEN report' = report /\ rpc' = "raised"
          ELSE report' = with_section(report, rpc, parsed.value) /\ rpc' = after(rpc)
    /\ UNCHANGED <<doc, id_cache, pc, row_i, samples, ret, parses, export_dir>>

\* generate_report returns the joined lines
ReportReturn ==
    /\ rpc = "return"
    /\ rpc' = "returned"
    /\ UNCHANGED <<doc, id_cache, pc, row_i, samples, ret, parses, export_dir, report>>

\* generate_report is called on an export directory
InitReport ==
    /\ doc = <<>>
    /\ id_cache = EmptyCache
    /\ pc = "done"
    /\ row_i = 0
    /\ samples = <<>>
    /\ ret = NoCall
    /\ parses = 0
    /\ export_dir \in [{Categories[i] : i \in 1..Len(Categories)} -> FileStates]
    \* the blocks that can raise on a well-formed file: a <duration> of 400 digits
    \* (int / 1_000_000.0 is an OverflowError outside the try), a <size> of 400 digits
    \* (total_bytes / 1024), persistent-bytes "inf KB" (int(inf)), a weight "inf ms"
    \* (int(inf) in generate_collapsed_stacks); parse_toc catches everything and the
    \* energy block only reads floats
    /\ export_dir["toc"] # "raising"
    /\ export_dir["energy-impact"] # "raising"
    /\ report = <<>>
    /\ rpc = "toc"

NextReport ==
    \/ ReportToc
    \/ ReportGuarded
    \/ ReportTimeProfile
    \/ ReportReturn

SpecReport == InitReport /\ [][NextReport]_vars

(***************************************************************************)
(* C12: for every category, the time profile included, a malformed         *)
(* document yields zero records for the category and raises nothing to the *)
(* caller: generate_report completes and reports the other categories.     *)
(* (Stated on the directories whose well-formed files hold harmless        *)
(* numbers, so that an exception can only come from a malformed document.) *)
(***************************************************************************)
C12_MalformedDocumentSkipped ==
    /\ (\A c \in DOMAIN export_dir : export_dir[c] # "raising") => rpc # "raised"
    /\ \A k \in 1..Len(report) : export_dir[report[k][1]] = "malformed" => report[k][2] = 0
    /\ rpc = "returned"
          => \A c \in DOMAIN export_dir :
                export_dir[c] = "records" => \E k \in 1..Len(report) : report[k][1] = c

(***************************************************************************)
(* A parser and then an analyzer on a document whose rows all have the     *)
(* backtrace [f] and whose weights are finite or not                       *)
(***************************************************************************)
InitNonFinite ==
    /\ \E shape \in {sh \in DocShapes(MaxRows, MaxRows) : \A i \in 1..Len(sh) : sh[i] = 1} :
          \E weights \in [1..Len(shape) -> {"plain", "thousands", "inf", "neginf", "nan"}] :
             doc = DocOf(shape, weights, [i \in 1..Len(shape) |-> "decl"])
    /\ id_cache = EmptyCache
    /\ pc = "start"
    /\ row_i = 0
    /\ samples = <<>>
    /\ ret = NoCall
    /\ NoReport

NextNonFinite ==
    \/ ParseBegin
    \/ ParseRow
    \/ ParseReturn
    \/ GetHotFrames
    \/ GetSelfTimeFrames
    \/ GetAppFrames
    \/ GetSwiftuiFrames
    \/ GenerateCollapsedStacks
    \/ Return

SpecNonFinite == InitNonFinite /\ [][NextNonFinite]_vars

(***************************************************************************)
(* C13: on every Trace that parse produces from a well-formed document,    *)
(* rows with odd weight strings such as non-finite numerals included, none *)
(* of get_hot_frames, get_self_time_frames, get_app_frames,                *)
(* get_swiftui_frames and generate_collapsed_stacks raises an exception.   *)
(***************************************************************************)
C13_AggregationNeverRaises ==
    ret.op \in {"get_hot_frames", "get_self_time_frames", "get_app_frames",
                "get_swiftui_frames", "generate_collapsed_stacks"}
    => ret.raised = None

(***************************************************************************)
(* A parser whose parse() is called again, and an analyzer on its Trace    *)
(***************************************************************************)
\* parse() is called at most MaxParses times
MaxParses == 2

\* parse() is called again on the same parser: self.samples and self.id_cache are kept
ParseCall ==
    /\ pc = "done"
    /\ doc # <<>>
    /\ ret.op = "none"
    /\ parses < MaxParses
    /\ pc' = "start"
    /\ UNCHANGED <<doc, id_cache, row_i, samples, ret, parses, export_dir, report, rpc>>

\* a parser on a document whose frames have a name or none
InitReparse ==
    /\ \E shape \in DocShapes(MaxRows, MaxFrames) :
          \E kinds \in [1..FramesOf(shape) -> {"decl", "anon"}] :
             doc = DocOf(shape, [i \in 1..Len(shape) |-> "plain"], kinds)
    /\ id_cache = EmptyCache
    /\ pc = "start"
    /\ row_i = 0
    /\ samples = <<>>
    /\ ret = NoCall
    /\ NoReport

NextReparse ==
    \/ ParseCall
    \/ ParseBegin
    \/ ParseRow
    \/ ParseReturn
    \/ GetHotFrames
    \/ GenerateCollapsedStacks
    \/ Return

SpecReparse == InitReparse /\ [][NextReparse]_vars

(***************************************************************************)
(* C14: once parse has returned a Trace, its length and its Samples never  *)
(* change, whatever is called later (parse again, an aggregation, the      *)
(* normalization), and a second parse of the same document returns a Trace *)
(* equal to the first: one Sample per row with a named frame.              *)
(***************************************************************************)
C14_TraceImmutableOnceReturned ==
    /\ [][parses >= 1 => samples' = samples]_vars
    /\ [](pc = "done" => Len(samples) = Len(Yielding(doc, RowsOf(doc))))

(***************************************************************************)
(* An analyzer over traces of two samples of two frames each, among them   *)
(* the trace of the end-to-end scenario                                    *)
(***************************************************************************)
S_funcA == <<"f","u","n","c","A">>
S_funcB == <<"f","u","n","c","B">>
S_funcC == <<"f","u","n","c","C">>

\* sample A then sample B
ScenarioTrace ==
    << Sample(<<>>, <<>>, <<>>, 5000, <<Frame(S_funcA, <<>>, S_binX), Frame(S_funcB, <<>>, S_binX)>>),
       Sample(<<>>, <<>>, <<>>, 3000, <<Frame(S_funcA, <<>>, S_binY), Frame(S_funcC, <<>>, S_binY)>>) >>

InitScenario ==
    /\ doc = <<>>
    /\ id_cache = EmptyCache
    /\ pc = "done"
    /\ row_i = 0
    /\ LET frames == { Frame(S_funcA, <<>>, S_binX), Frame(S_funcB, <<>>, S_binX),
                       Frame(S_funcA, <<>>, S_binY), Frame(S_funcC, <<>>, S_binY) }
           weights == {5000, 3000}
       IN \E fr \in [1..4 -> frames], ws \in [1..2 -> weights] :
             samples = [i \in 1..2 |->
                           Sample(<<>>, <<>>, <<>>, ws[i], <<fr[2 * i - 1], fr[2 * i]>>)]
    /\ ret = NoCall
    /\ NoReport

NextScenario ==
    \/ GetHotFrames
    \/ GetSelfTimeFrames
    \/ Return

SpecScenario == InitScenario /\ [][NextScenario]_vars

(***************************************************************************)
(* C15: on the trace A = [funcA in binX, funcB in binX] of weight 5,       *)
(* B = [funcA in binY, funcC in binY] of weight 3, get_hot_frames(2) has   *)
(* funcA first with count 2, weight 8.0 and binary binY, and               *)
(* get_self_time_frames(1) is one entry, funcA with count 2 and weight 8.0 *)
(***************************************************************************)
C15_EndToEndScenario ==
    (samples = ScenarioTrace /\ ret.filter_binary = None /\ ~ret.exclude_system)
    => /\ (ret.op = "get_hot_frames" /\ ret.top_n = 2)
             => /\ Len(ret.value) = 2
                /\ ret.value[1] = <<S_funcA, 2, 8000, S_binY>>
       /\ (ret.op = "get_self_time_frames" /\ ret.top_n = 1)
             => /\ Len(ret.value) = 1
                /\ ret.value[1][1] = S_funcA
                /\ ret.value[1][2] = 2
                /\ ret.value[1][3] = 8000

\* get_hot_frames(2) has returned on the scenario's trace
C15_Witness ==
    /\ samples = ScenarioTrace
    /\ ret.op = "get_hot_frames"
    /\ ret.top_n = 2
    /\ ret.filter_binary = None
    /\ ~ret.exclude_system
    /\ ret.value[1][1] = S_funcA

(***************************************************************************)
(* Order and product of floats, for the properties                         *)
(***************************************************************************)
\* a <= b for floats: false when either is nan
FLe(a, b) == a # NaN /\ b # NaN /\ a <= b

\* n * a for a count n and a float a
FTimes(n, a) ==
    IF a = NaN THEN NaN
    ELSE IF a \in {Infinity, -Infinity} THEN (IF n = 0 THEN NaN ELSE a)
    ELSE IF IsBig(a) THEN (IF n = 0 THEN 0 ELSE IF n = 1 THEN a ELSE NotModelled(<<n, a>>))
    ELSE n * a

\* M is the maximum sample weight over the whole trace
IsMaxWeight(ss, M) ==
    /\ \E i \in 1..Len(ss) : ss[i].weight_ms = M
    /\ \A i \in 1..Len(ss) : FLe(ss[i].weight_ms, M)

(***************************************************************************)
(* C16: for every entry (name, count, weight) of inclusive aggregation,    *)
(* under any filter setting, weight <= count * M where M is the maximum    *)
(* sample weight of the trace, and count is at most the number of samples. *)
(***************************************************************************)
C16_WeightBoundedByCountTimesMax ==
    ret.op = "get_hot_frames"
    => \A k \in 1..Len(ret.value) :
          /\ ret.value[k][2] <= Len(samples)
          /\ \A i \in 1..Len(samples) :
                IsMaxWeight(samples, samples[i].weight_ms)
                => FLe(ret.value[k][3], FTimes(ret.value[k][2], samples[i].weight_ms))

(***************************************************************************)
(* An analyzer over traces whose binaries equal the filter binX, differ    *)
(* from it in case, contain it, or are absent                              *)
(***************************************************************************)
S_binXY == <<"b","i","n","X","Y">>

FilterFrames ==
    { Frame(S_f, <<>>, S_binX), Frame(S_f, <<>>, S_binx), Frame(S_f, <<>>, S_binXY),
      Frame(S_View, <<>>, None), Frame(S_View, <<>>, S_binX) }

InitFilter ==
    /\ doc = <<>>
    /\ id_cache = EmptyCache
    /\ pc = "done"
    /\ row_i = 0
    /\ IsTraceUpTo(samples, FilterFrames, AggWeights, MaxFrames)
    /\ ret = NoCall
    /\ NoReport

NextFilter ==
    \/ GetHotFrames
    \/ Return

SpecFilter == InitFilter /\ [][NextFilter]_vars

(***************************************************************************)
(* C17: inclusive aggregation with a binary filter counts exactly the      *)
(* frames whose binary equals the filter (case-sensitive, whole string, a  *)
(* frame without binary never matches), and filters before it             *)
(* deduplicates: a name met in one sample first with another binary and    *)
(* then with the filter's binary adds that sample's weight and 1, once.    *)
(***************************************************************************)
\* the samples that hold a frame with the name whose binary is the filter
SamplesMatching(ss, name, filter_binary) ==
    {i \in 1..Len(ss) : \E j \in 1..Len(ss[i].backtrace) :
        /\ ss[i].backtrace[j].name = name
        /\ ss[i].backtrace[j].binary # None
        /\ ss[i].backtrace[j].binary = filter_binary}

NamesMatching(ss, filter_binary) ==
    {name \in NamedNames(ss) : SamplesMatching(ss, name, filter_binary) # {}}

C17_BinaryFilterExactBeforeDedup ==
    ( /\ ret.op = "get_hot_frames"
      /\ ret.filter_binary = S_binX
      /\ ~ret.exclude_system
      /\ ret.top_n >= Cardinality(NamesMatching(samples, S_binX)) )
    => /\ Len(ret.value) = Cardinality(NamesMatching(samples, S_binX))
       /\ \A name \in NamesMatching(samples, S_binX) :
             /\ Cardinality(EntriesOf(ret.value, name)) = 1
             /\ \A k \in EntriesOf(ret.value, name) :
                   /\ ret.value[k][2] = Cardinality(SamplesMatching(samples, name, S_binX))
                   /\ ret.value[k][3] = SumWeights(samples, SamplesMatching(samples, name, S_binX))

\* f in binx and then f in binX in the first sample, f in binXY alone in the second: f has
\* count 1 and the weight of the first sample
C17_Witness ==
    /\ ret.op = "get_hot_frames"
    /\ ret.filter_binary = S_binX
    /\ ~ret.exclude_system
    /\ Len(samples) = 2
    /\ samples[1].backtrace = <<Frame(S_f, <<>>, S_binx), Frame(S_f, <<>>, S_binX)>>
    /\ samples[2].backtrace = <<Frame(S_f, <<>>, S_binXY)>>
    /\ ret.value = << <<S_f, 1, samples[1].weight_ms, S_binX>> >>

(***************************************************************************)
(* An analyzer over traces with system frames: by binary (UIKitCore), by   *)
(* name (objc_x), and frames that are none (no binary, MyUIKit)            *)
(***************************************************************************)
S_UIKitCore == <<"U","I","K","i","t","C","o","r","e">>
S_MyUIKit == <<"M","y","U","I","K","i","t">>
S_objc_x == <<"o","b","j","c","_","x">>

SystemFrames ==
    { Frame(S_f, <<>>, S_binX), Frame(S_f, <<>>, S_UIKitCore), Frame(S_objc_x, <<>>, S_binX),
      Frame(S_View, <<>>, None), Frame(S_View, <<>>, S_MyUIKit) }

InitSystem ==
    /\ doc = <<>>
    /\ id_cache = EmptyCache
    /\ pc = "done"
    /\ row_i = 0
    /\ IsTraceUpTo(samples, SystemFrames, AggWeights, MaxFrames)
    /\ ret = NoCall
    /\ NoReport

NextSystem ==
    \/ GetHotFrames
    \/ Return

SpecSystem == InitSystem /\ [][NextSystem]_vars

(***************************************************************************)
(* C18: inclusive aggregation with exclude_system set: a frame whose name  *)
(* or whose binary starts with a system prefix contributes nothing; no     *)
(* returned name and no returned binary starts with a system prefix, and   *)
(* the counts and weights of the other names are those of the trace        *)
(* without its system frames.                                              *)
(***************************************************************************)
\* the string starts with one of the fixed system prefixes
SystemPrefixed(str) ==
    \E k \in 1..Len(system_prefixes) :
        /\ Len(str) >= Len(system_prefixes[k])
        /\ SubSeq(str, 1, Len(system_prefixes[k])) = system_prefixes[k]

IsSystem(frame) ==
    SystemPrefixed(frame.name) \/ (frame.binary # None /\ SystemPrefixed(frame.binary))

\* the backtrace without its system frames
RECURSIVE WithoutSystem(_)
WithoutSystem(backtrace) ==
    IF backtrace = <<>> THEN <<>>
    ELSE IF IsSystem(Head(backtrace)) THEN WithoutSystem(Tail(backtrace))
    ELSE <<Head(backtrace)>> \o WithoutSystem(Tail(backtrace))

StripSystem(ss) == [i \in 1..Len(ss) |-> [ss[i] EXCEPT !.backtrace = WithoutSystem(@)]]

\* the samples of a trace that hold the name in a frame passing the binary filter
SamplesPassing(ss, name, filter_binary) ==
    {i \in 1..Len(ss) : \E j \in 1..Len(ss[i].backtrace) :
        /\ ss[i].backtrace[j].name = name
        /\ PassesBinary(ss[i].backtrace[j], filter_binary)}

C18_SystemFramesExcluded ==
    (ret.op = "get_hot_frames" /\ ret.exclude_system)
    => LET stripped == StripSystem(samples)
           kept == {name \in NamedNames(stripped) :
                      SamplesPassing(stripped, name, ret.filter_binary) # {}}
       IN /\ \A k \in 1..Len(ret.value) :
                /\ ~SystemPrefixed(ret.value[k][1])
                /\ ret.value[k][4] # None => ~SystemPrefixed(ret.value[k][4])
          /\ ret.top_n >= Cardinality(kept)
                => /\ Len(ret.value) = Cardinality(kept)
                   /\ \A name \in kept :
                         LET holders == SamplesPassing(stripped, name, ret.filter_binary)
                         IN /\ Cardinality(EntriesOf(ret.value, name)) = 1
                            /\ \A k \in EntriesOf(ret.value, name) :
                                  /\ ret.value[k][2] = Cardinality(holders)
                                  /\ ret.value[k][3] = SumWeights(stripped, holders)

\* f in UIKitCore alone in the first sample, f in binX with objc_x in the second: f has
\* count 1, the weight of the second sample and the binary binX
C18_Witness ==
    /\ ret.op = "get_hot_frames"
    /\ ret.exclude_system
    /\ ret.filter_binary = None
    /\ Len(samples) = 2
    /\ samples[1].backtrace = <<Frame(S_f, <<>>, S_UIKitCore)>>
    /\ samples[2].backtrace = <<Frame(S_objc_x, <<>>, S_binX), Frame(S_f, <<>>, S_binX)>>
    /\ ret.value = << <<S_f, 1, samples[2].weight_ms, S_binX>> >>

(***************************************************************************)
(* C19: generate_collapsed_stacks with a binary filter: every name of an   *)
(* emitted line is that of a frame whose binary contains the filter as a   *)
(* case-insensitive substring, and every frame that fails this match, a    *)
(* frame without binary included, is skipped.                              *)
(***************************************************************************)
\* the frame's binary contains the filter, case-insensitively
MatchesFilter(frame, filter_binary) ==
    /\ frame.binary # None
    /\ contains(lower(frame.binary), lower(filter_binary))

\* the sanitized names of the frames that are no raw address and match, root first
RECURSIVE MatchingStack(_, _)
MatchingStack(backtrace, filter_binary) ==
    IF backtrace = <<>> THEN <<>>
    ELSE MatchingStack(Tail(backtrace), filter_binary)
         \o (IF ~IsRaw(Head(backtrace).name) /\ MatchesFilter(Head(backtrace), filter_binary)
             THEN <<Sanitized(Head(backtrace).name)>> ELSE <<>>)

\* the stacks of the samples that have a matching frame, in trace order
RECURSIVE MatchingStacks(_, _)
MatchingStacks(ss, filter_binary) ==
    IF ss = <<>> THEN <<>>
    ELSE (IF MatchingStack(Head(ss).backtrace, filter_binary) # <<>>
          THEN <<MatchingStack(Head(ss).backtrace, filter_binary)>> ELSE <<>>)
         \o MatchingStacks(Tail(ss), filter_binary)

C19_CollapsedFilterSkipsNonMatching ==
    ( /\ ret.op = "generate_collapsed_stacks"
      /\ ret.raised = None
      /\ ret.filter_binary # None
      /\ ret.filter_binary # <<>> )
    => LET lines == LinesOf(ret.value)
           stacks == MatchingStacks(samples, ret.filter_binary)
       IN /\ Len(lines) = Len(stacks)
          /\ \A k \in 1..Len(lines) : StackOfLine(lines[k]) = stacks[k]

(***************************************************************************)
(* An analyzer over traces in which one name has several binaries or none  *)
(***************************************************************************)
InitBinary ==
    /\ doc = <<>>
    /\ id_cache = EmptyCache
    /\ pc = "done"
    /\ row_i = 0
    /\ LET frames == { Frame(S_f, <<>>, S_binX), Frame(S_f, <<>>, S_binY),
                       Frame(S_f, <<>>, None), Frame(S_View, <<>>, S_binX) }
       IN IsTraceUpTo(samples, frames, AggWeights, MaxFrames)
    /\ ret = NoCall
    /\ NoReport

NextBinary ==
    \/ GetHotFrames
    \/ GetSelfTimeFrames
    \/ GetAppFrames
    \/ Return

SpecBinary == InitBinary /\ [][NextBinary]_vars

(***************************************************************************)
(* C20: in the results of inclusive and leaf-only aggregation the binary   *)
(* of a name is the binary of the last frame with that name, in traversal  *)
(* order (samples in trace order, frames in backtrace order), among the    *)
(* frames that pass the filters; it is absent only when no such frame has  *)
(* a binary.                                                               *)
(***************************************************************************)
\* the positions of the frames that pass the filters of the call: for inclusive aggregation
\* the frames that are no raw address and pass the binary and system filters, for leaf-only
\* aggregation the leaves
PassingPositions(ss, call) ==
    IF call.op = "get_hot_frames"
    THEN {p \in Positions(ss) : /\ ~IsRaw(FrameAt(ss, p).name)
                                /\ PassesBinary(FrameAt(ss, p), call.filter_binary)
                                /\ ~(call.exclude_system /\ IsSystem(FrameAt(ss, p)))}
    ELSE LeafPositions(ss, call.filter_binary)

\* the binary of the last frame of S that has the name and a binary, None when there is none
LastBinary(ss, S, name) ==
    LET with == {p \in S : /\ FrameAt(ss, p).name = name
                           /\ FrameAt(ss, p).binary # None
                           /\ FrameAt(ss, p).binary # <<>>}
    IN IF with = {} THEN None
       ELSE FrameAt(ss, CHOOSE p \in with : \A q \in with : p = q \/ Before(q, p)).binary

\* the claim as stated
C20_BinaryOfLastPassingFrame ==
    ret.op \in {"get_hot_frames", "get_self_time_frames"}
    => \A k \in 1..Len(ret.value) :
          ret.value[k][4] = LastBinary(samples, PassingPositions(samples, ret), ret.value[k][1])

\* the frames that are counted: of the passing frames, the first of each name in each sample
CountedPositions(ss, call) ==
    LET passing == PassingPositions(ss, call)
    IN {p \in passing :
          \A q \in passing :
             (q[1] = p[1] /\ FrameAt(ss, q).name = FrameAt(ss, p).name) => q[2] >= p[2]}

\* C20 as amended: the binary of a name is the binary of the last counted frame with that
\* name that has a binary (a frame is counted when it is the first passing frame of its
\* name in its sample; for leaf-only aggregation, when it is the leaf); it is absent only
\* when no counted frame of the name has a binary
C20_BinaryOfLastCountedFrame ==
    ret.op \in {"get_hot_frames", "get_self_time_frames"}
    => \A k \in 1..Len(ret.value) :
          ret.value[k][4] = LastBinary(samples, CountedPositions(samples, ret), ret.value[k][1])

\* f in binX and then f in binY in one sample, f without binary in the next: binX is reported
C20_Witness ==
    /\ ret.op = "get_hot_frames"
    /\ ret.filter_binary = None
    /\ Len(samples) = 2
    /\ samples[1].backtrace = <<Frame(S_f, <<>>, S_binX), Frame(S_f, <<>>, S_binY)>>
    /\ samples[2].backtrace = <<Frame(S_f, <<>>, None)>>
    /\ Len(ret.value) = 1
    /\ ret.value[1][4] = S_binX

(***************************************************************************)
(* C21: get_app_frames returns the (name, count, weight) entries of        *)
(* inclusive aggregation over the trace restricted to the frames that have *)
(* a binary containing app_binary, case-insensitively: a frame without     *)
(* binary never contributes, and a name met twice in one sample counts     *)
(* once.                                                                   *)
(***************************************************************************)
\* the frames of the backtrace that have a binary containing app_binary
RECURSIVE InScope(_, _)
InScope(backtrace, app_binary) ==
    IF backtrace = <<>> THEN <<>>
    ELSE (IF MatchesFilter(Head(backtrace), app_binary) THEN <<Head(backtrace)>> ELSE <<>>)
         \o InScope(Tail(backtrace), app_binary)

Restricted(ss, app_binary) ==
    [i \in 1..Len(ss) |-> [ss[i] EXCEPT !.backtrace = InScope(@, app_binary)]]

C21_AppFramesAreScopedInclusive ==
    ret.op = "get_app_frames"
    => LET scoped == Restricted(samples, ret.app_binary)
           names == NamedNames(scoped)
       IN /\ \A k \in 1..Len(ret.value) :
                /\ Len(ret.value[k]) = 3
                /\ ret.value[k][1] \in names
                /\ ret.value[k][2] = Cardinality(SamplesWithName(scoped, ret.value[k][1]))
                /\ ret.value[k][3] = SumWeights(scoped, SamplesWithName(scoped, ret.value[k][1]))
                /\ \A m \in 1..Len(ret.value) : ret.value[m][1] = ret.value[k][1] => m = k
          /\ Len(ret.value) = Min(ret.top_n, Cardinality(names))

\* f twice in binX in the first sample, f in binY alone in the second: with "binx" f has
\* count 1 and the weight of the first sample
C21_Witness ==
    /\ ret.op = "get_app_frames"
    /\ ret.app_binary = S_binx
    /\ Len(samples) = 2
    /\ samples[1].backtrace = <<Frame(S_f, <<>>, S_binX), Frame(S_f, <<>>, S_binX)>>
    /\ samples[2].backtrace = <<Frame(S_f, <<>>, S_binY)>>
    /\ ret.value = << <<S_f, 1, samples[1].weight_ms>> >>

(***************************************************************************)
(* C22: get_swiftui_frames, for every top_n >= 0, returns a subsequence,   *)
(* in the same order, of the first 100 entries of unfiltered inclusive     *)
(* aggregation, holding only entries whose name contains one of the fixed  *)
(* keywords or whose binary contains "SwiftUI", each with the count and    *)
(* weight of the inclusive entry, and it has at most top_n entries.        *)
(***************************************************************************)
\* the string holds the substring at some position
HasSubstring(str, sub) ==
    \E i \in 0..(Len(str) - Len(sub)) : SubSeq(str, i + 1, i + Len(sub)) = sub

\* the name holds a keyword, or there is a binary and it holds "SwiftUI"
IsSwiftUIRelated(name, binary) ==
    \/ \E kw \in { <<"S","w","i","f","t","U","I">>, <<"A","G",":",":">>, <<"V","i","e","w">>,
                   <<"L","a","y","o","u","t">>, <<"D","i","s","p","l","a","y","L","i","s","t">>,
                   <<"A","t","t","r","i","b","u","t","e">> } : HasSubstring(name, kw)
    \/ (binary # None /\ HasSubstring(binary, <<"S","w","i","f","t","U","I">>))

\* the (name, count, weight) of the related entries of an inclusive result, in its order
RECURSIVE RelatedEntries(_)
RelatedEntries(hot) ==
    IF hot = <<>> THEN <<>>
    ELSE (IF IsSwiftUIRelated(Head(hot)[1], Head(hot)[4])
          THEN << <<Head(hot)[1], Head(hot)[2], Head(hot)[3]>> >> ELSE <<>>)
         \o RelatedEntries(Tail(hot))

\* r is a subsequence of h
RECURSIVE IsSubsequence(_, _)
IsSubsequence(r, h) ==
    IF r = <<>> THEN TRUE
    ELSE IF h = <<>> THEN FALSE
    ELSE IF Head(r) = Head(h) THEN IsSubsequence(Tail(r), Tail(h))
    ELSE IsSubsequence(r, Tail(h))

C22_KeywordSubsetCappedAtTopN ==
    ret.op = "get_swiftui_frames"
    => /\ IsSubsequence(ret.value, RelatedEntries(get_hot_frames(samples, 100, None, FALSE)))
       /\ Len(ret.value) <= ret.top_n

(***************************************************************************)
(* C23: in parse the identifier index is complete, covering every element  *)
(* of the document that declares an identifier, before the first row is    *)
(* resolved, and it does not change while the rows are resolved; so a      *)
(* frame of a row that refers to an identifier declared only later in the  *)
(* document than the row resolves to the declaring element.                *)
(***************************************************************************)
\* every declared identifier is indexed, to an element that declares it, and nothing else
IndexComplete(d, cache) ==
    /\ DOMAIN cache = {d[k].id : k \in {m \in 1..Len(d) : d[m].id # None /\ d[m].id # <<>>}}
    /\ \A id \in DOMAIN cache : cache[id] \in Declaring(d, id)

\* the rows with a frame that refers to an identifier declared only after the frame
ForwardRows(d) ==
    {r \in 1..Len(d) :
        /\ d[r].tag = "row"
        /\ \E e \in 1..Len(d) :
              /\ d[e].tag = "frame" /\ IsBelow(d, e, r)
              /\ HasRef(d[e])
              /\ Declaring(d, d[e].ref) # {}
              /\ \A m \in Declaring(d, d[e].ref) : m > e}

C23_IndexBuiltBeforeRows ==
    /\ [](pc = "rows" => IndexComplete(doc, id_cache))
    /\ [][pc = "rows" => id_cache' = id_cache]_vars
    /\ [](pc \in {"rows", "done"}
            => LET yielding == YieldingSoFar
                   forward == ForwardRows(doc)
               IN \A k \in 1..Len(samples) :
                     (k <= Len(yielding) /\ yielding[k] \in forward)
                     => LET elems == NamedFrameElements(doc, yielding[k])
                        IN NamesOfSample(samples[k])
                              = [j \in 1..Len(elems) |-> doc[elems[j]].name])

\* the first row's frame refers to the frame the second row declares: the first Sample has it
C23_Witness ==
    /\ pc = "done"
    /\ Len(RowsOf(doc)) = 2
    /\ RowsOf(doc)[1] \in ForwardRows(doc)
    /\ Len(iter(doc, RowsOf(doc)[1], "frame")) = 1
    /\ Len(samples) = 2
    /\ samples[1].time = <<"1">>
    /\ NamesOfSample(samples[1]) = <<S_f>>

(***************************************************************************)
(* A parser on documents whose frames refer to frames that refer on: to a  *)
(* third frame, to each other, or to themselves                            *)
(***************************************************************************)
InitChain ==
    /\ \E shape \in DocShapes(MaxRows, MaxFrames) :
          \E kinds \in [1..FramesOf(shape) -> {"hop", "back", "self"}] :
             doc = DocOf(shape, [i \in 1..Len(shape) |-> "plain"], kinds)
    /\ id_cache = EmptyCache
    /\ pc = "start"
    /\ row_i = 0
    /\ samples = <<>>
    /\ ret = NoCall
    /\ NoReport

SpecChain == InitChain /\ [][NextResolve]_vars

(***************************************************************************)
(* C24: resolution substitutes once: when element A refers to B and B      *)
(* refers on to C, _resolve_ref of A returns B and the name of the frame   *)
(* is read from B, never from C; it returns after this one lookup whatever *)
(* the references are, for an element that refers to itself and for two    *)
(* that refer to each other.                                               *)
(***************************************************************************)
C24_OneSubstitutionOnly ==
    /\ ret.op = "_resolve_ref"
          => /\ ret.value = Resolved(doc, ret.elem)
             /\ HasRef(doc[ret.elem]) /\ Declaring(doc, doc[ret.elem].ref) # {}
                   => doc[ret.value].id = doc[ret.elem].ref
             /\ doc[ret.elem].id = doc[ret.elem].ref /\ HasRef(doc[ret.elem])
                   => doc[ret.value].id = doc[ret.elem].id
    /\ pc \in {"rows", "done"}
          => LET yielding == YieldingSoFar
             IN /\ Len(samples) = Len(yielding)
                /\ \A k \in 1..Len(samples) :
                      LET named == NamedFrameElements(doc, yielding[k])
                      IN NamesOfSample(samples[k]) = [j \in 1..Len(named) |-> doc[named[j]].name]

\* A refers to B (View), which refers on to C (f), a third element: B is returned
C24_Witness ==
    /\ ret.op = "_resolve_ref"
    /\ doc[ret.elem].ref = S_id2
    /\ Resolved(doc, ret.value) # ret.elem
    /\ doc[ret.value].id = S_id2
    /\ doc[ret.value].name = S_View
    /\ HasRef(doc[ret.value])
    /\ Resolved(doc, ret.value) # ret.value
    /\ doc[Resolved(doc, ret.value)].name = S_f
    /\ \E k \in 1..Len(samples) : NamesOfSample(samples[k]) = <<S_View>>

(***************************************************************************)
(* A parser on documents whose frames have no binary child, one with a     *)
(* name, one without a name, one that refers to a binary, or two           *)
(***************************************************************************)
InitChild ==
    /\ \E shape \in {sh \in DocShapes(MaxRows, MaxFrames) : \A i \in 1..Len(sh) : sh[i] >= 1} :
          \E kinds \in [1..FramesOf(shape) ->
                           {"decl", "ref", "raw", "binref", "twobin", "nobinname"}] :
             doc = DocOf(shape, [i \in 1..Len(shape) |-> "plain"], kinds)
    /\ id_cache = EmptyCache
    /\ pc = "start"
    /\ row_i = 0
    /\ samples = <<>>
    /\ ret = NoCall
    /\ NoReport

SpecChild == InitChild /\ [][NextParse]_vars

(***************************************************************************)
(* C25: the binary of a reconstructed Frame is absent exactly when the     *)
(* resolved frame element has no binary child; otherwise it is the name of *)
(* the first binary child once that child is resolved through the index:   *)
(* the name of the referenced element when the child's ref is indexed, the *)
(* child's own name when it has no ref or a ref nothing declares.          *)
(***************************************************************************)
\* the binary children of an element, in document order
BinaryChildren(d, e) == InOrder({c \in 1..Len(d) : d[c].parent = e /\ d[c].tag = "binary"})

\* the name attribute of the element, the empty string when it has none
NameOf(elem) == IF elem.name = None THEN <<>> ELSE elem.name

C25_BinaryOfFirstBinaryChild ==
    pc \in {"rows", "done"}
    => LET yielding == YieldingSoFar
       IN /\ Len(samples) = Len(yielding)
          /\ \A k \in 1..Len(samples) :
                LET elems == NamedFrameElements(doc, yielding[k])
                IN /\ Len(samples[k].backtrace) = Len(elems)
                   /\ \A j \in 1..Len(elems) :
                         LET kids == BinaryChildren(doc, elems[j])
                             binary == samples[k].backtrace[j].binary
                         IN /\ binary = None <=> kids = <<>>
                            /\ kids # <<>> => binary = NameOf(doc[Resolved(doc, kids[1])])

\* a frame whose binary child refers to the binary binX and is itself named binY gets binX;
\* a raw frame in the same backtrace has no binary
C25_Witness ==
    /\ pc = "done"
    /\ \E k \in 1..Len(samples) :
          /\ Len(samples[k].backtrace) = 3
          /\ samples[k].backtrace[1] = Frame(S_View, <<>>, S_binX)
          /\ samples[k].backtrace[2] = Frame(S_0x1, S_0x1, None)
          /\ samples[k].backtrace[3] = Frame(S_f, S_addr, S_binX)
          /\ LET frames == iter(doc, YieldingSoFar[k], "frame")
             IN doc[BinaryChildren(doc, frames[1])[1]].name = S_binY

(***************************************************************************)
(* A parser on documents whose rows lack a time, thread or process         *)
(* element, or have one without formatted value, of their own or by        *)
(* reference; every row has the backtrace [0x1] and no weight              *)
(***************************************************************************)
\* the elements of one field of a row
\*   none <nothing>     nofmt <thread/>      fmt <thread fmt="main"/>
\*   decl <thread id="h" fmt="main"/>        declnofmt <thread id="h"/>     ref <thread ref="h"/>
FieldElements(kind, tag, row) ==
    LET fmt == CASE tag = "sample-time" -> <<"0", "0", ":", "0", "1">>
                 [] tag = "thread" -> <<"m", "a", "i", "n">>
                 [] tag = "process" -> <<"a", "p", "p">>
        id == CASE tag = "sample-time" -> <<"t">>
                [] tag = "thread" -> <<"h">>
                [] tag = "process" -> <<"p">>
    IN CASE kind = "none" -> <<>>
         [] kind = "nofmt" -> << Element(tag, row, None, None, None, None, None) >>
         [] kind = "fmt" -> << Element(tag, row, None, None, fmt, None, None) >>
         [] kind = "decl" -> << Element(tag, row, id, None, fmt, None, None) >>
         [] kind = "declnofmt" -> << Element(tag, row, id, None, None, None, None) >>
         [] kind = "ref" -> << Element(tag, row, None, id, None, None, None) >>

\* d with the rows rows[i..]: rows[i] = <<which, kind>> gives the field which (or all three)
\* the kind, the other fields a formatted value
RECURSIVE FieldDocFrom(_, _, _)
FieldDocFrom(d, i, rows) ==
    IF i > Len(rows) THEN d
    ELSE LET row == Len(d) + 1
             of(tag) == FieldElements(IF rows[i][1] \in {tag, "all"} THEN rows[i][2] ELSE "fmt",
                                      tag, row)
             head == Append(d, Element("row", 1, None, None, None, None, None))
                        \o of("sample-time") \o of("thread") \o of("process")
             bt == Len(head) + 1
         IN FieldDocFrom(AddFrames(Append(head, Element("backtrace", row, None, None, None,
                                                        None, None)),
                                   bt, <<"raw">>, 1),
                         i + 1, rows)

InitFields ==
    /\ \E n \in 0..MaxRows :
          \E rows \in [1..n -> {"sample-time", "thread", "process", "all"}
                                  \X {"none", "nofmt", "fmt", "decl", "declnofmt", "ref"}] :
             doc = FieldDocFrom(<< Element("trace-query-result", 0, None, None, None, None, None) >>,
                                1, rows)
    /\ id_cache = EmptyCache
    /\ pc = "start"
    /\ row_i = 0
    /\ samples = <<>>
    /\ ret = NoCall
    /\ NoReport

SpecFields == InitFields /\ [][NextParse]_vars

(***************************************************************************)
(* C26: when a row has no time, thread or process element, or the resolved *)
(* element has no formatted value, the field of the Sample is the empty    *)
(* string (otherwise the formatted value of the resolved element); the row *)
(* yields its Sample whenever its backtrace is not empty, and parse        *)
(* returns.                                                                *)
(***************************************************************************)
\* the field the row gives: "" when the element or the formatted value is missing
ExpectedField(d, row, tag) ==
    LET e == find(d, row, tag)
    IN IF e = 0 THEN <<>>
       ELSE IF d[Resolved(d, e)].fmt = None THEN <<>>
       ELSE d[Resolved(d, e)].fmt

C26_MissingFieldsAreEmpty ==
    pc \in {"rows", "done"}
    => LET yielding == YieldingSoFar
       IN /\ Len(samples) = Len(yielding)
          /\ \A k \in 1..Len(samples) :
                /\ samples[k].time = ExpectedField(doc, yielding[k], "sample-time")
                /\ samples[k].thread = ExpectedField(doc, yielding[k], "thread")
                /\ samples[k].process = ExpectedField(doc, yielding[k], "process")
                /\ samples[k].backtrace # <<>>

\* a row without any of the three elements, and a row whose thread element is a reference
\* without formatted value: both yield their Sample
C26_Witness ==
    /\ pc = "done"
    /\ Len(RowsOf(doc)) = 2
    /\ \A tag \in {"sample-time", "thread", "process"} : find(doc, RowsOf(doc)[1], tag) = 0
    /\ find(doc, RowsOf(doc)[2], "thread") # 0
    /\ HasRef(doc[find(doc, RowsOf(doc)[2], "thread")])
    /\ Len(samples) = 2
    /\ samples[1].time = <<>> /\ samples[1].thread = <<>> /\ samples[1].process = <<>>
    /\ samples[2].thread = <<>>
    /\ samples[2].process = <<"a", "p", "p">>

(***************************************************************************)
(* Two calls of the analyzer running at the same time on one Trace: each   *)
(* call has its own position in the loop over self.samples and its own     *)
(* local accumulator (frame_counts, frame_weights, frame_binary or lines)  *)
(***************************************************************************)
\* a call that has not started its loop
Call(op, top_n, filter_binary, app_binary) ==
    [op |-> op, top_n |-> top_n, filter_binary |-> filter_binary, exclude_system |-> FALSE,
     app_binary |-> app_binary, i |-> 0, acc |-> <<>>, done |-> FALSE, value |-> <<>>]

\* mutant: the accumulators are attributes of the analyzer, shared by the calls of a method
call_step_shared(calls, c, ss) ==
    LET call == calls[c]
        i == call.i + 1
        acc == CASE call.op \in {"get_hot_frames", "get_swiftui_frames"} ->
                       hot_frames_loop(call.acc, <<ss[i]>>, 1, call.filter_binary, FALSE)
                 [] call.op = "get_self_time_frames" ->
                       self_time_loop(call.acc, <<ss[i]>>, 1, call.filter_binary)
                 [] call.op = "get_app_frames" ->
                       app_frames_loop(call.acc, <<ss[i]>>, 1, call.app_binary)
                 [] call.op = "generate_collapsed_stacks" ->
                       collapsed_lines(call.acc, <<ss[i]>>, 1, call.filter_binary)
        ranked == slice_to(sorted_by_weight_desc(call.acc), call.top_n)
        value == CASE call.op \in {"get_hot_frames", "get_self_time_frames"} -> ranked
                   [] call.op = "get_app_frames" -> [k \in 1..Len(ranked) |-> triple(ranked[k])]
                   [] call.op = "get_swiftui_frames" ->
                         swiftui_loop(<<>>, slice_to(sorted_by_weight_desc(call.acc), 100), 1,
                                      call.top_n)
                   [] call.op = "generate_collapsed_stacks" -> join(<<"\n">>, call.acc)
    IN IF call.i < Len(ss)
       THEN [k \in 1..Len(calls) |->
                IF k = c THEN [call EXCEPT !.i = i, !.acc = acc]
                ELSE IF calls[k].op = call.op /\ ~calls[k].done
                     THEN [calls[k] EXCEPT !.acc = acc]
                ELSE calls[k]]
       ELSE [calls EXCEPT ![c] = [call EXCEPT !.done = TRUE, !.value = value]]

\* one turn of the loop over self.samples of call c, or, after the last sample, the code
\* that follows the loop and builds the result
call_step(calls, c, ss) ==
    LET call == calls[c]
        i == call.i + 1
        acc == CASE call.op \in {"get_hot_frames", "get_swiftui_frames"} ->
                       hot_frames_loop(call.acc, <<ss[i]>>, 1, call.filter_binary, FALSE)
                 [] call.op = "get_self_time_frames" ->
                       self_time_loop(call.acc, <<ss[i]>>, 1, call.filter_binary)
                 [] call.op = "get_app_frames" ->
                       app_frames_loop(call.acc, <<ss[i]>>, 1, call.app_binary)
                 [] call.op = "generate_collapsed_stacks" ->
                       collapsed_lines(call.acc, <<ss[i]>>, 1, call.filter_binary)
        ranked == slice_to(sorted_by_weight_desc(call.acc), call.top_n)
        value == CASE call.op \in {"get_hot_frames", "get_self_time_frames"} -> ranked
                   [] call.op = "get_app_frames" -> [k \in 1..Len(ranked) |-> triple(ranked[k])]
                   [] call.op = "get_swiftui_frames" ->
                         swiftui_loop(<<>>, slice_to(sorted_by_weight_desc(call.acc), 100), 1,
                                      call.top_n)
                   [] call.op = "generate_collapsed_stacks" -> join(<<"\n">>, call.acc)
    IN IF call.i < Len(ss)
       THEN [calls EXCEPT ![c] = [call EXCEPT !.i = i, !.acc = acc]]
       ELSE [calls EXCEPT ![c] = [call EXCEPT !.done = TRUE, !.value = value]]

\* two threads call the analyzer
ConcurrentBegin ==
    /\ pc = "done"
    /\ ret.op = "none"
    /\ \E calls \in [1..2 -> { Call("get_hot_frames", MaxTopN, None, None),
                               Call("get_hot_frames", MaxTopN, S_binX, None),
                               Call("get_self_time_frames", MaxTopN, None, None),
                               Call("get_app_frames", MaxTopN, None, S_bin),
                               Call("get_swiftui_frames", MaxTopN, None, None),
                               Call("generate_collapsed_stacks", 0, S_bin, None) }] :
          ret' = [op |-> "concurrent", calls |-> calls]
    /\ UNCHANGED <<doc, id_cache, pc, row_i, samples>>
    /\ UNCHANGED <<parses, export_dir, report, rpc>>

\* the scheduler lets one of the running calls take a step
ConcurrentStep ==
    /\ ret.op = "concurrent"
    /\ \E c \in 1..2 :
          /\ ~ret.calls[c].done
          /\ ret' = [ret EXCEPT !.calls = call_step(ret.calls, c, samples)]
    /\ UNCHANGED <<doc, id_cache, pc, row_i, samples>>
    /\ UNCHANGED <<parses, export_dir, report, rpc>>

\* both calls have returned; their locals are gone
ConcurrentReturn ==
    /\ ret.op = "concurrent"
    /\ \A c \in 1..2 : ret.calls[c].done
    /\ ret' = NoCall
    /\ UNCHANGED <<doc, id_cache, pc, row_i, samples>>
    /\ UNCHANGED <<parses, export_dir, report, rpc>>

InitConcurrent ==
    /\ doc = <<>>
    /\ id_cache = EmptyCache
    /\ pc = "done"
    /\ row_i = 0
    /\ LET frames == { Frame(S_f, <<>>, S_binX), Frame(S_View, <<>>, None) }
       IN IsTraceUpTo(samples, frames, AggWeights, MaxFrames)
    /\ ret = NoCall
    /\ NoReport

NextConcurrent ==
    \/ ConcurrentBegin
    \/ ConcurrentStep
    \/ ConcurrentReturn

SpecConcurrent == InitConcurrent /\ [][NextConcurrent]_vars

(***************************************************************************)
(* C27: no aggregation or normalization call changes the Trace, a Sample   *)
(* or a Frame, and no call leaves state behind; so however the steps of    *)
(* two calls running at the same time on one Trace are interleaved, each   *)
(* returns what it returns when it runs alone.                             *)
(***************************************************************************)
\* what the call returns when nothing else runs
ResultAlone(ss, call) ==
    CASE call.op = "get_hot_frames" ->
            get_hot_frames(ss, call.top_n, call.filter_binary, call.exclude_system)
      [] call.op = "get_self_time_frames" ->
            get_self_time_frames(ss, call.top_n, call.filter_binary)
      [] call.op = "get_app_frames" -> get_app_frames(ss, call.app_binary, call.top_n)
      [] call.op = "get_swiftui_frames" -> get_swiftui_frames(ss, call.top_n)
      [] call.op = "generate_collapsed_stacks" ->
            generate_collapsed_stacks(ss, call.filter_binary)

C27_ConcurrentCallsIndependent ==
    /\ [][samples' = samples]_vars
    /\ [][ret'.op = "none" => ret' = NoCall]_vars
    /\ [](ret.op = "concurrent"
            => \A c \in 1..2 :
                  ret.calls[c].done => ret.calls[c].value = ResultAlone(samples, ret.calls[c]))

\* two get_hot_frames calls with different filters, the second finished while the first
\* is in the middle of its loop over two samples
C27_Witness ==
    /\ ret.op = "concurrent"
    /\ Len(samples) = 2
    /\ ret.calls[1].op = "get_hot_frames" /\ ret.calls[1].filter_binary = None
    /\ ret.calls[2].op = "get_hot_frames" /\ ret.calls[2].filter_binary = S_binX
    /\ ret.calls[1].i = 1 /\ ~ret.calls[1].done
    /\ ret.calls[2].done
    /\ Len(ret.calls[1].acc) = 2
    /\ Len(ret.calls[2].value) = 1

(***************************************************************************)
(* An analyzer over traces whose weights are 1.0 ms and 2^53 ms            *)
(***************************************************************************)
InitOrder ==
    /\ doc = <<>>
    /\ id_cache = EmptyCache
    /\ pc = "done"
    /\ row_i = 0
    /\ LET frames == { Frame(S_f, <<>>, S_binX), Frame(S_View, <<>>, None) }
       IN IsTraceUpTo(samples, frames, {1000, Two53}, MaxFrames)
    /\ ret = NoCall
    /\ NoReport

SpecOrder == InitOrder /\ [][NextScenario]_vars

(***************************************************************************)
(* C28: the count and the accumulated weight of a name in inclusive and    *)
(* leaf-only aggregation do not depend on the order of the samples: for    *)
(* every permutation of the Trace, and for every split of the Trace into   *)
(* two parts aggregated separately and merged by adding counts and weights *)
(* per name, they equal those of the aggregation over the Trace as it is.  *)
(***************************************************************************)
\* the accumulated entries <<name, count, weight, binary>> of the call's policy over ss
Accumulated(ss, call) ==
    IF call.op = "get_hot_frames"
    THEN hot_frames_loop(<<>>, ss, 1, call.filter_binary, call.exclude_system)
    ELSE self_time_loop(<<>>, ss, 1, call.filter_binary)

\* the count and weight of the name in accumulated entries, <<0, 0>> when it has none
StatsOf(d, name) ==
    IF \E k \in 1..Len(d) : d[k][1] = name
    THEN LET k == CHOOSE k \in 1..Len(d) : d[k][1] = name IN <<d[k][2], d[k][3]>>
    ELSE <<0, 0>>

\* the samples of ss at the indices of S, in the order of ss
Part(ss, S) == LET at == InOrder(S) IN [i \in 1..Len(at) |-> ss[at[i]]]

C28_OrderIndependentAccumulation ==
    ret.op \in {"get_hot_frames", "get_self_time_frames"}
    => \A k \in 1..Len(ret.value) :
          LET name == ret.value[k][1]
              here == <<ret.value[k][2], ret.value[k][3]>>
          IN /\ \A perm \in Permutations(1..Len(samples)) :
                   StatsOf(Accumulated([i \in 1..Len(samples) |-> samples[perm[i]]], ret), name)
                      = here
             /\ \A S \in SUBSET (1..Len(samples)) :
                   LET one == StatsOf(Accumulated(Part(samples, S), ret), name)
                       other == StatsOf(Accumulated(Part(samples, (1..Len(samples)) \ S), ret),
                                        name)
                   IN <<one[1] + other[1], fadd(one[2], other[2])>> = here

(***************************************************************************)
(* C29: self time never exceeds total time: on a trace of non-negative     *)
(* weights, with the same binary filter for both calls and no system       *)
(* exclusion, every name of the leaf-only result is in the inclusive       *)
(* result (taken without truncation), its leaf-only count is at most its   *)
(* inclusive count and its leaf-only weight at most its inclusive weight.  *)
(***************************************************************************)
NonNegativeWeights(ss) ==
    \A i \in 1..Len(ss) : ss[i].weight_ms >= 0 /\ ss[i].weight_ms # NaN

\* the names of accumulated entries
NamesIn(d) == {d[k][1] : k \in 1..Len(d)}

C29_SelfTimeAtMostTotalTime ==
    NonNegativeWeights(samples)
    => /\ ret.op = "get_self_time_frames"
             => LET total == hot_frames_loop(<<>>, samples, 1, ret.filter_binary, FALSE)
                IN \A k \in 1..Len(ret.value) :
                      /\ ret.value[k][1] \in NamesIn(total)
                      /\ ret.value[k][2] <= StatsOf(total, ret.value[k][1])[1]
                      /\ ret.value[k][3] <= StatsOf(total, ret.value[k][1])[2]
       /\ (ret.op = "get_hot_frames" /\ ~ret.exclude_system)
             => LET self == self_time_loop(<<>>, samples, 1, ret.filter_binary)
                IN /\ ret.top_n >= Cardinality(NamesIn(self) \cup NamesIn(ret.value))
                         => NamesIn(self) \subseteq NamesIn(ret.value)
                   /\ \A k \in 1..Len(ret.value) :
                         /\ StatsOf(self, ret.value[k][1])[1] <= ret.value[k][2]
                         /\ StatsOf(self, ret.value[k][1])[2] <= ret.value[k][3]

\* f is the leaf of the first sample only and stands below View in the second: with the
\* filter binX its self time is the first sample's, its total time that of both
C29_Witness ==
    /\ ret.op = "get_self_time_frames"
    /\ ret.filter_binary = S_binX
    /\ Len(samples) = 2
    /\ samples[1].backtrace = <<Frame(S_f, <<>>, S_binX)>>
    /\ samples[2].backtrace = <<Frame(S_View, <<>>, S_binX), Frame(S_f, <<>>, S_binX)>>
    /\ \E k \in 1..Len(ret.value) :
          /\ ret.value[k] = <<S_f, 1, samples[1].weight_ms, S_binX>>
          /\ StatsOf(hot_frames_loop(<<>>, samples, 1, S_binX, FALSE), S_f)[1] = 2

(***************************************************************************)
(* A parser on documents in which two frames declare the same identifier   *)
(* with different names, and a frame declares the empty identifier         *)
(***************************************************************************)
InitDuplicate ==
    /\ \E shape \in {sh \in DocShapes(MaxRows, MaxFrames) : \A i \in 1..Len(sh) : sh[i] >= 1} :
          \E kinds \in [1..FramesOf(shape) -> {"decl", "dup", "ref", "emptyid"}] :
             doc = DocOf(shape, [i \in 1..Len(shape) |-> "plain"], kinds)
    /\ id_cache = EmptyCache
    /\ pc = "start"
    /\ row_i = 0
    /\ samples = <<>>
    /\ ret = NoCall
    /\ NoReport

SpecDuplicate == InitDuplicate /\ [][NextResolve]_vars

(***************************************************************************)
(* C30: an element is indexed exactly when it declares an identifier that  *)
(* is not empty; when several elements declare one identifier the index    *)
(* holds the last of them in document order, and every reference to the    *)
(* identifier resolves to that last element.                               *)
(***************************************************************************)
\* the last element, in document order, that declares the identifier
LastDeclaring(d, id) == CHOOSE k \in Declaring(d, id) : \A m \in Declaring(d, id) : m <= k

C30_LastDeclarationIndexed ==
    pc \in {"rows", "done"}
    => /\ DOMAIN id_cache
             = {doc[k].id : k \in {m \in 1..Len(doc) : doc[m].id # None /\ doc[m].id # <<>>}}
       /\ \A id \in DOMAIN id_cache : id_cache[id] = LastDeclaring(doc, id)
       /\ ret.op = "_resolve_ref"
             => LET elem == doc[ret.elem]
                IN IF HasRef(elem) /\ Declaring(doc, elem.ref) # {}
                   THEN ret.value = LastDeclaring(doc, elem.ref)
                   ELSE ret.value = ret.elem
       /\ LET yielding == YieldingSoFar
          IN \A k \in 1..Len(samples) :
                k <= Len(yielding)
                => LET frames == iter(doc, yielding[k], "frame")
                   IN \A j \in 1..Len(frames) :
                         (HasRef(doc[frames[j]]) /\ Declaring(doc, doc[frames[j]].ref) # {})
                         => /\ Len(samples[k].backtrace) = Len(frames)
                            /\ samples[k].backtrace[j].name
                                  = doc[LastDeclaring(doc, doc[frames[j]].ref)].name

\* f and then View declare the identifier 1; a frame between them refers to it and gets View
C30_Witness ==
    /\ ret.op = "_resolve_ref"
    /\ doc[ret.elem].ref = S_id1
    /\ \E first \in Declaring(doc, S_id1) :
          /\ first < ret.elem
          /\ doc[first].name = S_f
    /\ ret.value > ret.elem
    /\ doc[ret.value].name = S_View
    /\ \E k \in 1..Len(samples) : NamesOfSample(samples[k]) = <<S_f, S_View, S_View>>

====
